---- MODULE Spec2Model ----
(***************************************************************************)
(* Session orchestrator of the agent route (app/api/agent/route.ts) with   *)
(* the JSON task store (lib/db).  One request slot per POST /api/agent     *)
(* call; a slot is first the request handler and then, once the            *)
(* ReadableStream is built, the relay that iterates the engine stream.     *)
(* Handlers are run-to-completion between their await points, so every     *)
(* action is the code between two awaits.                                  *)
(*                                                                         *)
(* Wall-clock time is not counted.  A timer of a relay may fire at any     *)
(* moment while it is armed, subject to the order the durations force      *)
(* (five minutes of silence come before ten minutes of silence), and a     *)
(* session's "now - lastAccess > SESSION_TIMEOUT_MS" is the flag expired,  *)
(* raised once every timer started at or before that access has run out    *)
(* (thirty minutes are longer than any timer of a relay).                  *)
(***************************************************************************)
EXTENDS Integers, Sequences, FiniteSets, TLC

\* ---- bounds ----
MaxReq == 2            \* POST /api/agent requests
MaxUpdates == 1        \* engine updates over all streams, several requests
MaxRelayUpdates == 2   \* engine updates of the stream of a single request
MaxLongUpdates == 11   \* engine updates of one long stream, past a 10th
MaxStoreUpdates == 4   \* engine updates of a stream next to other writers
MaxClock == 13         \* seconds on the clock of the client's view

\* ---- program constants ----
SAVE_EVERY == 10           \* updateCount % 10
STUCK_SECONDS == 10        \* secondsStuck >= 10

Reqs == 1..MaxReq
None == 0                  \* undefined / null reference
NoId == "noId"             \* sessionId absent from the request body
NoDir == "noDir"           \* workingDirectory absent from the request body
NoTask == "noTask"         \* taskId absent from the request body
SuppliedIds == {"s1"}
Dirs == {"d1", "d2"}
CWD == "d1"                \* process.cwd()
TaskIds == {"t1"}
ClientObj == Cardinality(TaskIds) + 1   \* the task object parsed from a
                                        \* client's save request
ObjIds == 1..ClientObj

RandomUUID(r) == "u" \o ToString(r)
UserMsgId(r) == "m" \o ToString(r) \o "u"
AsstMsgId(r) == "m" \o ToString(r) \o "a"

\* ---- update events of the engine and items of the wire protocol ----
Upd(type, text, callId, status, tokens, enc) ==
  [type |-> type, text |-> text, callId |-> callId, status |-> status,
   tokens |-> tokens, enc |-> enc]

Updates ==
  { Upd("text-delta", "x", "", "", 0, TRUE),
    Upd("thinking-delta", "y", "", "", 0, TRUE),
    Upd("thinking-completed", "", "", "", 0, TRUE),
    Upd("tool-call-started", "", "c1", "", 0, TRUE),
    Upd("tool-call-completed", "", "c1", "success", 0, TRUE),
    Upd("tool-call-completed", "", "c1", "success", 0, FALSE),
    Upd("summary", "z", "", "", 0, TRUE),
    Upd("token-delta", "", "", "", 1, TRUE),
    Upd("error", "e", "", "", 0, TRUE) }

\* the updates that differ in how the relay and its sink treat them
CoreUpdates ==
  { Upd("text-delta", "x", "", "", 0, TRUE),
    Upd("token-delta", "", "", "", 1, TRUE),
    Upd("tool-call-completed", "", "c1", "success", 0, FALSE) }

Item(type, text, callId, status, tokens, sessionId) ==
  [type |-> type, text |-> text, callId |-> callId, status |-> status,
   tokens |-> tokens, sessionId |-> sessionId]

\* JSON.stringify(update) of an encodable update
Wire(u) == Item(u.type, u.text, u.callId, u.status, u.tokens, "")
SessionEvent(id) == Item("session", "", "", "", 0, id)
ErrorEvent(text) == Item("error", text, "", "", 0, "")
DoneEvent == Item("done", "", "", "", 0, "")
SerializeErrorEvent == ErrorEvent("Failed to serialize agent update")

\* ---- faults raised by the engine's iterator ----
Faults == {"boom", "NGHTTP2"}
ControllerClosedError == "Invalid state: Controller is already closed"
TimeoutText == "Agent stream timed out after 5 minutes"
HungText == "Agent hung for 5 minutes with no updates. Task cancelled."
InterruptedText == "Submission interrupted - new request received"
KilledText == "Session terminated by user"
KilledAllText == "All sessions terminated"

ErrorMessage(error) ==
  IF error = "notAnError" THEN "Unknown error"
  ELSE IF error = "NGHTTP2" THEN "Connection to Cursor API lost"
  ELSE error

VARIABLES agentSessions, req, heap, dataStore, disk, budget, notFound, view

vars == <<agentSessions, req, heap, dataStore, disk, budget, notFound, view>>

EmptyMap == [c \in {} |-> None]

\* currentAssistantMessage = null
NoMsg ==
  [id |-> "none", content |-> <<>>, isStreaming |-> FALSE, thinking |-> <<>>,
   toolCalls |-> EmptyMap, summaries |-> <<>>]

NewReq ==
  [pc |-> "new", response |-> "none", sessionId |-> NoId, agent |-> None,
   directory |-> NoDir, taskId |-> NoTask, canReuse |-> FALSE,
   forced |-> FALSE, task |-> None, controllerClosed |-> FALSE,
   sink |-> <<>>, streamClosed |-> FALSE, updateCount |-> 0,
   events |-> <<>>, asst |-> NoMsg, totalTokens |-> 0,
   timeoutArmed |-> FALSE, heartbeatArmed |-> FALSE, cancelCalls |-> 0,
   submitOutcome |-> "none", endedBy |-> "none", fault |-> "none",
   savedAt |-> 0, evicted |-> {}]

InitTask(t) ==
  [id |-> t, status |-> "running", error |-> "", messages |-> <<>>,
   tokenCount |-> 0]

\* the whole mutable state, threaded through the helpers below
World ==
  [agentSessions |-> agentSessions, req |-> req, heap |-> heap,
   dataStore |-> dataStore, disk |-> disk, notFound |-> FALSE,
   view |-> view]

SetWorld(W) ==
  /\ agentSessions' = W.agentSessions
  /\ req' = W.req
  /\ heap' = W.heap
  /\ dataStore' = W.dataStore
  /\ disk' = W.disk
  /\ notFound' = W.notFound
  /\ view' = W.view

\* ---- lib/db: the JSON task store ----

\* a message as JSON.stringify writes it: the saved copy of an assistant
\* message shares its metadata object with the relay that builds it
JsonMessage(W, m) ==
  IF m.metaOf = None
  THEN [id |-> m.id, role |-> m.role, content |-> m.content,
        isStreaming |-> m.isStreaming, thinking |-> <<>>,
        toolCalls |-> EmptyMap, summaries |-> <<>>]
  ELSE [id |-> m.id, role |-> m.role, content |-> m.content,
        isStreaming |-> m.isStreaming,
        thinking |-> W.req[m.metaOf].asst.thinking,
        toolCalls |-> W.req[m.metaOf].asst.toolCalls,
        summaries |-> W.req[m.metaOf].asst.summaries]

JsonTask(W, o) ==
  [id |-> W.heap[o].id, status |-> W.heap[o].status,
   error |-> W.heap[o].error, tokenCount |-> W.heap[o].tokenCount,
   messages |-> [i \in 1..Len(W.heap[o].messages) |->
                   JsonMessage(W, W.heap[o].messages[i])]]

\* dataStore.tasks is an array of task objects: a sequence of references
\* into the heap.  findIndex is 0 where the code's is -1.
findIndex(W, taskId) ==
  LET found == {i \in 1..Len(W.dataStore) :
                  W.heap[W.dataStore[i]].id = taskId}
  IN IF found = {} THEN 0
     ELSE CHOOSE i \in found : \A j \in found : i <= j

StoredIds(W) == {W.heap[W.dataStore[i]].id : i \in 1..Len(W.dataStore)}

\* the file as written by JSON.stringify(dataStore.tasks), read by task id
saveData(W) ==
  [W EXCEPT !.disk = [t \in StoredIds(W) |->
                        JsonTask(W, W.dataStore[findIndex(W, t)])]]

getTask(W, taskId) ==
  IF findIndex(W, taskId) > 0 THEN W.dataStore[findIndex(W, taskId)]
  ELSE None

\* an update that adds the task when the store does not hold it
updateTask_Upserts(W, o) ==
  LET index == findIndex(W, W.heap[o].id) IN
  IF index > 0
  THEN saveData([W EXCEPT !.dataStore[index] = o])
  ELSE saveData([W EXCEPT !.dataStore = <<o>> \o @])

updateTask(W, o) ==
  LET index == findIndex(W, W.heap[o].id) IN
  IF index > 0
  THEN saveData([W EXCEPT !.dataStore[index] = o])
  ELSE W

saveTask(W, o) ==
  LET existingIndex == findIndex(W, W.heap[o].id) IN
  IF existingIndex > 0
  THEN saveData([W EXCEPT !.dataStore[existingIndex] = o])
  ELSE saveData([W EXCEPT !.dataStore = <<o>> \o @])

deleteTask(W, taskId) ==
  saveData([W EXCEPT !.dataStore =
              SelectSeq(@, LAMBDA o : W.heap[o].id # taskId)])

clearCompleted(W) ==
  saveData([W EXCEPT !.dataStore =
              SelectSeq(@, LAMBDA o :
                 W.heap[o].status \notin {"completed", "failed"})])

clearAllCache(W) ==
  saveData([W EXCEPT !.dataStore = <<>>])

\* ---- message builder of the relay (ReadableStream.start) ----

Cat(s, t) == IF t = "" THEN s ELSE Append(s, t)

NewAssistant(r, content, thinking) ==
  [id |-> AsstMsgId(r), content |-> content, isStreaming |-> TRUE,
   thinking |-> thinking, toolCalls |-> EmptyMap, summaries |-> <<>>]

UserMessage(r) ==
  [id |-> UserMsgId(r), role |-> "user", content |-> <<"msg">>,
   isStreaming |-> FALSE, metaOf |-> None]

AssistantCopy(a, r) ==
  [id |-> a.id, role |-> "assistant", content |-> a.content,
   isStreaming |-> a.isStreaming, metaOf |-> r]

\* a builder whose text-delta branch marks the message as streaming again
Fold_RestartsStreaming(q, r, u) ==
  LET a == q.asst IN
  CASE u.type = "thinking-delta" ->
         [q EXCEPT !.asst =
            IF a = NoMsg THEN NewAssistant(r, <<>>, Cat(<<>>, u.text))
            ELSE [a EXCEPT !.thinking = Cat(@, u.text)]]
    [] u.type = "text-delta" ->
         [q EXCEPT !.asst =
            IF a = NoMsg THEN NewAssistant(r, Cat(<<>>, u.text), <<>>)
            ELSE [a EXCEPT !.content = Cat(@, u.text),
                           !.isStreaming = TRUE]]
    [] u.type = "tool-call-started" ->
         LET b == IF a = NoMsg THEN NewAssistant(r, <<>>, <<>>) ELSE a IN
         [q EXCEPT !.asst =
            IF u.callId # ""
            THEN [b EXCEPT !.toolCalls =
                    [c \in DOMAIN b.toolCalls \cup {u.callId} |->
                       IF c = u.callId
                       THEN [type |-> "shell", result |-> ""]
                       ELSE b.toolCalls[c]]]
            ELSE b]
    [] u.type = "tool-call-completed" ->
         IF a # NoMsg /\ u.callId # "" /\ u.callId \in DOMAIN a.toolCalls
         THEN [q EXCEPT !.asst.toolCalls[u.callId].result = u.status]
         ELSE q
    [] u.type = "summary" ->
         IF a # NoMsg /\ u.text # ""
         THEN [q EXCEPT !.asst.summaries = Append(@, u.text)]
         ELSE q
    [] u.type = "token-delta" ->
         IF u.tokens # 0
         THEN [q EXCEPT !.totalTokens = @ + u.tokens]
         ELSE q
    [] OTHER -> q

\* the if / else-if chain over update.type; q is the relay's record
Fold(q, r, u) ==
  LET a == q.asst IN
  CASE u.type = "thinking-delta" ->
         [q EXCEPT !.asst =
            IF a = NoMsg THEN NewAssistant(r, <<>>, Cat(<<>>, u.text))
            ELSE [a EXCEPT !.thinking = Cat(@, u.text)]]
    [] u.type = "text-delta" ->
         [q EXCEPT !.asst =
            IF a = NoMsg THEN NewAssistant(r, Cat(<<>>, u.text), <<>>)
            ELSE [a EXCEPT !.content = Cat(@, u.text)]]
    [] u.type = "tool-call-started" ->
         LET b == IF a = NoMsg THEN NewAssistant(r, <<>>, <<>>) ELSE a IN
         [q EXCEPT !.asst =
            IF u.callId # ""
            THEN [b EXCEPT !.toolCalls =
                    [c \in DOMAIN b.toolCalls \cup {u.callId} |->
                       IF c = u.callId
                       THEN [type |-> "shell", result |-> ""]
                       ELSE b.toolCalls[c]]]
            ELSE b]
    [] u.type = "tool-call-completed" ->
         IF a # NoMsg /\ u.callId # "" /\ u.callId \in DOMAIN a.toolCalls
         THEN [q EXCEPT !.asst.toolCalls[u.callId].result = u.status]
         ELSE q
    [] u.type = "summary" ->
         IF a # NoMsg /\ u.text # ""
         THEN [q EXCEPT !.asst.summaries = Append(@, u.text)]
         ELSE q
    [] u.type = "token-delta" ->
         IF u.tokens # 0
         THEN [q EXCEPT !.totalTokens = @ + u.tokens]
         ELSE q
    [] OTHER -> q

HasId(msgs, id) == \E i \in 1..Len(msgs) : msgs[i].id = id

saveToDatabase(W, r) ==
  LET q == W.req[r] IN
  IF q.task = None THEN W
  ELSE
    LET msgs0 == W.heap[q.task].messages
        msgs1 == IF HasId(msgs0, UserMsgId(r)) THEN msgs0
                 ELSE Append(msgs0, UserMessage(r))
        msgs2 == IF q.asst = NoMsg THEN msgs1
                 ELSE IF HasId(msgs1, q.asst.id)
                 THEN [i \in 1..Len(msgs1) |->
                         IF msgs1[i].id = q.asst.id
                         THEN AssistantCopy(q.asst, r) ELSE msgs1[i]]
                 ELSE Append(msgs1, AssistantCopy(q.asst, r))
        W1 == updateTask([W EXCEPT !.heap[q.task].messages = msgs2,
                                   !.heap[q.task].tokenCount = q.totalTokens],
                         q.task)
    IN \* savedAt: the update count at the last write that reached the store
       IF getTask(W, W.heap[q.task].id) # None
       THEN [W1 EXCEPT !.req[r].savedAt = q.updateCount]
       ELSE W1

\* ---- session fields ----

\* the clean-up that resets the flag but keeps the sink and the token
ClearSession_KeepsHandles(S, id) ==
  IF id \in DOMAIN S
  THEN [S EXCEPT ![id].isSubmitting = FALSE]
  ELSE S

ClearSession(S, id) ==
  IF id \in DOMAIN S
  THEN [S EXCEPT ![id].isSubmitting = FALSE,
                 ![id].currentController = None,
                 ![id].currentSubmission = None]
  ELSE S

DeleteSession(S, id) == [x \in DOMAIN S \ {id} |-> S[x]]

\* sendError of relay r; the enqueue on a closed controller throws and
\* the rest of the function is skipped
sendError(W, r, error) ==
  LET q == W.req[r]
      errorMessage == ErrorMessage(error)
  IN
  IF q.streamClosed THEN W
  ELSE
    LET W1 == [W EXCEPT !.req[r].streamClosed = TRUE]
        W2 == IF q.task # None /\ q.asst # NoMsg
              THEN saveToDatabase(
                     [W1 EXCEPT !.heap[q.task].status = "failed",
                                !.heap[q.task].error = errorMessage,
                                !.req[r].asst.isStreaming = FALSE,
                                !.req[r].asst.content =
                                   IF @ = <<>>
                                   THEN <<"Error: " \o errorMessage>>
                                   ELSE @],
                     r)
              ELSE W1
    IN IF q.controllerClosed THEN W2
       ELSE [W2 EXCEPT !.req[r].sink = Append(@, ErrorEvent(errorMessage)),
                       !.req[r].controllerClosed = TRUE,
                       !.agentSessions = ClearSession(@, q.sessionId)]

ClearTimers(W, r) ==
  [W EXCEPT !.req[r].timeoutArmed = FALSE,
            !.req[r].heartbeatArmed = FALSE]

\* ---- POST /api/agent ----

\* a clean-up that deletes nothing
cleanupSessions_KeepsAll(S) == S

cleanupSessions(S) ==
  [x \in {id \in DOMAIN S : ~S[id].expired} |-> S[x]]

Directory(workingDirectory) ==
  IF workingDirectory = NoDir THEN CWD ELSE workingDirectory

\* reuse decided on the id alone
canReuseSession_IgnoresDirectory(S, existingSessionId, directory) ==
  /\ existingSessionId # NoId
  /\ existingSessionId \in DOMAIN S

canReuseSession(S, existingSessionId, directory) ==
  /\ existingSessionId # NoId
  /\ existingSessionId \in DOMAIN S
  /\ S[existingSessionId].workingDirectory = directory

NewSession(agent, directory) ==
  [agent |-> agent, expired |-> FALSE, workingDirectory |-> directory,
   currentController |-> None, currentSubmission |-> None,
   isSubmitting |-> FALSE]

\* enqueue an error item on controller c and close it, inside try / catch
CloseWith(W, c, text) ==
  IF W.req[c].controllerClosed THEN W
  ELSE [W EXCEPT !.req[c].sink = Append(@, ErrorEvent(text)),
                 !.req[c].controllerClosed = TRUE]

\* submission.cancel() inside try / catch
Cancel(W, c) == [W EXCEPT !.req[c].cancelCalls = @ + 1]

\* a force-stop that clears the session but leaves the previous sink open
ForceStop_LeavesSinkOpen(W, r, id, cancelThrows) ==
  LET s == W.agentSessions[id]
      W1 == IF s.currentSubmission # None THEN Cancel(W, s.currentSubmission)
            ELSE W
  IN [W1 EXCEPT !.agentSessions[id].currentController = None,
                !.agentSessions[id].currentSubmission = None,
                !.agentSessions[id].isSubmitting = FALSE,
                !.req[r].pc = "delay",
                !.req[r].forced = TRUE]

\* a force-stop whose forced clean-up is skipped when cancel() throws
ForceStop_StopsAtCancelError(W, r, id, cancelThrows) ==
  LET s == W.agentSessions[id]
      W1 == IF s.currentSubmission # None THEN Cancel(W, s.currentSubmission)
            ELSE W
      W2 == IF s.currentController # None
            THEN CloseWith(W1, s.currentController, InterruptedText)
            ELSE W1
  IN IF cancelThrows /\ s.currentSubmission # None
     THEN [W1 EXCEPT !.req[r].pc = "delay",
                     !.req[r].forced = TRUE]
     ELSE [W2 EXCEPT !.agentSessions[id].currentController = None,
                     !.agentSessions[id].currentSubmission = None,
                     !.agentSessions[id].isSubmitting = FALSE,
                     !.req[r].pc = "delay",
                     !.req[r].forced = TRUE]

\* a force-stop that closes the sink but keeps the cancel token on the session
ForceStop_KeepsToken(W, r, id, cancelThrows) ==
  LET s == W.agentSessions[id]
      W1 == IF s.currentSubmission # None THEN Cancel(W, s.currentSubmission)
            ELSE W
      W2 == IF s.currentController # None
            THEN CloseWith(W1, s.currentController, InterruptedText)
            ELSE W1
  IN [W2 EXCEPT !.agentSessions[id].currentController = None,
                !.agentSessions[id].isSubmitting = FALSE,
                !.req[r].pc = "delay",
                !.req[r].forced = TRUE]

\* the force-stop of the previous submission of session id by request r, up
\* to the 100 ms delay; cancel() runs inside try / catch, so a throwing
\* cancel (cancelThrows) is only logged
ForceStop(W, r, id, cancelThrows) ==
  LET s == W.agentSessions[id]
      W1 == IF s.currentSubmission # None THEN Cancel(W, s.currentSubmission)
            ELSE W
      W2 == IF s.currentController # None
            THEN CloseWith(W1, s.currentController, InterruptedText)
            ELSE W1
  IN [W2 EXCEPT !.agentSessions[id].currentController = None,
                !.agentSessions[id].currentSubmission = None,
                !.agentSessions[id].isSubmitting = FALSE,
                !.req[r].pc = "delay",
                !.req[r].forced = TRUE]

\* a busy engine answered with 409 while the session stays registered
DestroySession_KeepsSession(W, r) ==
  [W EXCEPT !.req[r].pc = "ended",
            !.req[r].response = "409"]

\* the nuclear option: the engine is still busy, the session is deleted
DestroySession(W, r) ==
  [W EXCEPT !.agentSessions = DeleteSession(@, W.req[r].sessionId),
            !.req[r].pc = "ended",
            !.req[r].response = "409"]

\* a start that registers the controller without pushing the session event
StreamStart_NoSessionEvent(W, r, o) ==
  LET id == W.req[r].sessionId IN
  [W EXCEPT !.agentSessions =
               IF id \in DOMAIN @
               THEN [@ EXCEPT ![id].currentController = r] ELSE @,
            !.req[r].pc = "iterating",
            !.req[r].response = "stream",
            !.req[r].task = o,
            !.req[r].totalTokens = IF o = None THEN 0 ELSE W.heap[o].tokenCount,
            !.req[r].timeoutArmed = TRUE,
            !.req[r].heartbeatArmed = TRUE]

\* the synchronous part of ReadableStream.start, up to the first await of
\* the loop; o is the task loaded for the request
StreamStart(W, r, o) ==
  LET id == W.req[r].sessionId IN
  [W EXCEPT !.agentSessions =
               IF id \in DOMAIN @
               THEN [@ EXCEPT ![id].currentController = r] ELSE @,
            !.req[r].pc = "iterating",
            !.req[r].response = "stream",
            !.req[r].task = o,
            !.req[r].totalTokens = IF o = None THEN 0 ELSE W.heap[o].tokenCount,
            !.req[r].sink = <<SessionEvent(id)>>,
            !.req[r].timeoutArmed = TRUE,
            !.req[r].heartbeatArmed = TRUE]

\* a handler whose outer catch answers 500 without resetting the session
SubmitAndStream_ErrorKeepsFlag(W, r, outcome) ==
  LET q == W.req[r]
      id == q.sessionId
      o == getTask(W, q.taskId)
  IN
  IF id \notin DOMAIN W.agentSessions
  THEN \* agentSessions.get(sessionId)! is undefined: TypeError, outer catch
       [W EXCEPT !.req[r].pc = "ended", !.req[r].response = "500"]
  ELSE
    LET W1 == [W EXCEPT !.agentSessions[id].isSubmitting = TRUE,
                        !.req[r].submitOutcome = outcome]
    IN
    CASE outcome = "busy" -> DestroySession(W1, r)
      [] outcome = "error" ->
           [W1 EXCEPT !.req[r].pc = "ended",
                      !.req[r].response = "500"]
      [] OTHER ->
           StreamStart([W1 EXCEPT !.agentSessions[id].currentSubmission = r],
                       r, o)

\* from the task load to the return of the handler: agent.submit, then the
\* ReadableStream is built and its start runs
SubmitAndStream(W, r, outcome) ==
  LET q == W.req[r]
      id == q.sessionId
      o == getTask(W, q.taskId)
  IN
  IF id \notin DOMAIN W.agentSessions
  THEN \* agentSessions.get(sessionId)! is undefined: TypeError, outer catch
       [W EXCEPT !.req[r].pc = "ended", !.req[r].response = "500"]
  ELSE
    LET W1 == [W EXCEPT !.agentSessions[id].isSubmitting = TRUE,
                        !.req[r].submitOutcome = outcome]
    IN
    CASE outcome = "busy" -> DestroySession(W1, r)
      [] outcome = "error" ->
           [W1 EXCEPT !.agentSessions = ClearSession(@, id),
                      !.req[r].pc = "ended",
                      !.req[r].response = "500"]
      [] OTHER ->
           StreamStart([W1 EXCEPT !.agentSessions[id].currentSubmission = r],
                       r, o)

Outcomes == {"ok", "busy", "error"}

NextArrival(r) ==
  /\ req[r].pc = "new"
  /\ \A k \in Reqs : k < r => req[k].pc # "new"

\* a rejection that comes after the periodic clean-up of the registry
PostInvalid_AfterCleanup(r, status) ==
  /\ NextArrival(r)
  /\ req' = [req EXCEPT ![r].pc = "ended", ![r].response = status]
  /\ agentSessions' = cleanupSessions(agentSessions)
  /\ notFound' = FALSE
  /\ UNCHANGED <<heap, dataStore, disk, budget, view>>

\* request rejected before any session work
PostInvalid(r, status) ==
  /\ NextArrival(r)
  /\ req' = [req EXCEPT ![r].pc = "ended", ![r].response = status]
  /\ notFound' = FALSE
  /\ UNCHANGED <<agentSessions, heap, dataStore, disk, budget, view>>

\* a handler that stops the session it replaces under a supplied id
Post_StopsReplacedSession(r, existingSessionId, workingDirectory, taskId, outcome) ==
  /\ NextArrival(r)
  /\ LET directory == Directory(workingDirectory)
         S1 == cleanupSessions(agentSessions)
         \* evicted: the ids the clean-up of this request removed
         W0 == [World EXCEPT !.agentSessions = S1,
                             !.req[r].directory = directory,
                             !.req[r].taskId = taskId,
                             !.req[r].evicted = DOMAIN agentSessions \ DOMAIN S1]
     IN IF canReuseSession(S1, existingSessionId, directory)
        THEN LET W1 == [W0 EXCEPT
                          !.req[r].sessionId = existingSessionId,
                          !.req[r].agent = S1[existingSessionId].agent,
                          !.req[r].canReuse = TRUE,
                          !.agentSessions[existingSessionId].expired = FALSE]
             IN IF S1[existingSessionId].isSubmitting
                THEN \E cancelThrows \in BOOLEAN :
                       SetWorld(ForceStop(W1, r, existingSessionId,
                                          cancelThrows))
                ELSE SetWorld(SubmitAndStream(W1, r, outcome))
        ELSE LET sessionId == IF existingSessionId # NoId
                              THEN existingSessionId ELSE RandomUUID(r)
                 W00 == IF sessionId \in DOMAIN S1
                        THEN LET c == S1[sessionId].currentController
                                 Wc == IF S1[sessionId].currentSubmission # None
                                       THEN Cancel(W0, S1[sessionId].currentSubmission)
                                       ELSE W0
                             IN IF c # None
                                THEN CloseWith(Wc, c, InterruptedText)
                                ELSE Wc
                        ELSE W0
                 W1 == [W00 EXCEPT
                          !.req[r].sessionId = sessionId,
                          !.req[r].agent = r,
                          !.agentSessions =
                             [x \in DOMAIN S1 \cup {sessionId} |->
                                IF x = sessionId THEN NewSession(r, directory)
                                ELSE S1[x]]]
             IN SetWorld(SubmitAndStream(W1, r, outcome))
  /\ UNCHANGED budget

\* accepted request, up to its first await
Post(r, existingSessionId, workingDirectory, taskId, outcome) ==
  /\ NextArrival(r)
  /\ LET directory == Directory(workingDirectory)
         S1 == cleanupSessions(agentSessions)
         \* evicted: the ids the clean-up of this request removed
         W0 == [World EXCEPT !.agentSessions = S1,
                             !.req[r].directory = directory,
                             !.req[r].taskId = taskId,
                             !.req[r].evicted = DOMAIN agentSessions \ DOMAIN S1]
     IN IF canReuseSession(S1, existingSessionId, directory)
        THEN LET W1 == [W0 EXCEPT
                          !.req[r].sessionId = existingSessionId,
                          !.req[r].agent = S1[existingSessionId].agent,
                          !.req[r].canReuse = TRUE,
                          !.agentSessions[existingSessionId].expired = FALSE]
             IN IF S1[existingSessionId].isSubmitting
                THEN \E cancelThrows \in BOOLEAN :
                       SetWorld(ForceStop(W1, r, existingSessionId,
                                          cancelThrows))
                ELSE SetWorld(SubmitAndStream(W1, r, outcome))
        ELSE LET sessionId == IF existingSessionId # NoId
                              THEN existingSessionId ELSE RandomUUID(r)
                 W1 == [W0 EXCEPT
                          !.req[r].sessionId = sessionId,
                          !.req[r].agent = r,
                          !.agentSessions =
                             [x \in DOMAIN S1 \cup {sessionId} |->
                                IF x = sessionId THEN NewSession(r, directory)
                                ELSE S1[x]]]
             IN SetWorld(SubmitAndStream(W1, r, outcome))
  /\ UNCHANGED budget

\* the handler resumes after the 100 ms settle delay
PostResume(r, outcome) ==
  /\ req[r].pc = "delay"
  /\ SetWorld(SubmitAndStream(World, r, outcome))
  /\ UNCHANGED budget

\* ---- the relay: for await (const update of stream) ----

\* a closed controller makes enqueue throw: catch (streamError), sendError
EnqueueThrows(W, r) ==
  [sendError(ClearTimers(W, r), r, ControllerClosedError) EXCEPT
     !.req[r].pc = "ended",
     !.req[r].endedBy = "throw"]

\* the item the relay pushes for update u: JSON.stringify inside try / catch
Deliver(u) == IF u.enc THEN Wire(u) ELSE SerializeErrorEvent

\* a loop body that forwards only the updates the message builder handles
ProcessUpdate_SkipsTokenDelta(W, r, u) ==
  LET W1 == [W EXCEPT !.req[r].updateCount = @ + 1,
                      !.req[r].events = Append(@, u)]
      W2 == IF W.req[r].task = None THEN W1
            ELSE LET W3 == [W1 EXCEPT !.req[r] = Fold(@, r, u)] IN
                 IF \/ W3.req[r].updateCount % SAVE_EVERY = 0
                    \/ u.type \in {"tool-call-completed", "summary"}
                 THEN saveToDatabase(W3, r) ELSE W3
  IN IF W.req[r].controllerClosed
     THEN EnqueueThrows(W2, r)
     ELSE IF u.type = "token-delta" THEN W2
     ELSE [W2 EXCEPT !.req[r].sink = Append(@, Deliver(u))]

\* a loop body whose serialization failure ends the stream through sendError
ProcessUpdate_AbortsOnSerializeError(W, r, u) ==
  LET W1 == [W EXCEPT !.req[r].updateCount = @ + 1,
                      !.req[r].events = Append(@, u)]
      W2 == IF W.req[r].task = None THEN W1
            ELSE LET W3 == [W1 EXCEPT !.req[r] = Fold(@, r, u)] IN
                 IF \/ W3.req[r].updateCount % SAVE_EVERY = 0
                    \/ u.type \in {"tool-call-completed", "summary"}
                 THEN saveToDatabase(W3, r) ELSE W3
  IN IF W.req[r].controllerClosed
     THEN EnqueueThrows(W2, r)
     ELSE IF ~u.enc
     THEN [sendError(ClearTimers(W2, r), r, "boom") EXCEPT
             !.req[r].pc = "ended"]
     ELSE [W2 EXCEPT !.req[r].sink = Append(@, Deliver(u))]

\* the body of the loop for update u
ProcessUpdate(W, r, u) ==
  LET W1 == [W EXCEPT !.req[r].updateCount = @ + 1,
                      !.req[r].events = Append(@, u)]
      W2 == IF W.req[r].task = None THEN W1
            ELSE LET W3 == [W1 EXCEPT !.req[r] = Fold(@, r, u)] IN
                 IF \/ W3.req[r].updateCount % SAVE_EVERY = 0
                    \/ u.type \in {"tool-call-completed", "summary"}
                 THEN saveToDatabase(W3, r) ELSE W3
  IN IF W.req[r].controllerClosed
     THEN EnqueueThrows(W2, r)
     ELSE [W2 EXCEPT !.req[r].sink = Append(@, Deliver(u))]

RelayUpdate(r, u) ==
  /\ req[r].pc = "iterating"
  /\ budget > 0
  /\ budget' = budget - 1
  /\ SetWorld(ProcessUpdate(World, r, u))

\* the engine's sequence is exhausted; the relay awaits stream.done
StreamEnd(r) ==
  /\ req[r].pc = "iterating"
  /\ SetWorld([ClearTimers(World, r) EXCEPT !.req[r].pc = "awaitDone"])
  /\ UNCHANGED budget

\* a completion block that marks the task completed without the final save
Complete_NoFinalSave(W, r) ==
  LET q == W.req[r] IN
  IF q.streamClosed
  THEN [W EXCEPT !.req[r].pc = "ended"]
  ELSE LET W1 == IF q.asst # NoMsg
                 THEN [W EXCEPT !.req[r].asst.isStreaming = FALSE]
                 ELSE W
           W2 == IF q.task # None
                 THEN [W1 EXCEPT !.heap[q.task].status = "completed"]
                 ELSE W1
       IN IF q.controllerClosed
          THEN EnqueueThrows(W2, r)
          ELSE [W2 EXCEPT
                  !.req[r].sink = Append(@, DoneEvent),
                  !.req[r].streamClosed = TRUE,
                  !.req[r].controllerClosed = TRUE,
                  !.req[r].pc = "ended",
                  !.agentSessions = ClearSession(@, q.sessionId)]

\* the completion block after await stream.done
Complete(W, r) ==
  LET q == W.req[r] IN
  IF q.streamClosed
  THEN [W EXCEPT !.req[r].pc = "ended"]
  ELSE LET W1 == IF q.asst # NoMsg
                 THEN [W EXCEPT !.req[r].asst.isStreaming = FALSE]
                 ELSE W
           W2 == IF q.task # None
                 THEN saveToDatabase(
                        [W1 EXCEPT !.heap[q.task].status = "completed"], r)
                 ELSE W1
       IN IF q.controllerClosed
          THEN EnqueueThrows(W2, r)
          ELSE [W2 EXCEPT
                  !.req[r].sink = Append(@, DoneEvent),
                  !.req[r].streamClosed = TRUE,
                  !.req[r].controllerClosed = TRUE,
                  !.req[r].pc = "ended",
                  !.agentSessions = ClearSession(@, q.sessionId)]

\* stream.done resolves
StreamDone(r) ==
  /\ req[r].pc = "awaitDone"
  /\ SetWorld([Complete(World, r) EXCEPT !.req[r].endedBy = "exhausted"])
  /\ UNCHANGED budget

\* the iterator, or stream.done, rejects
StreamFault(r, error) ==
  /\ req[r].pc \in {"iterating", "awaitDone"}
  /\ SetWorld([sendError(ClearTimers(World, r), r, error) EXCEPT
                 !.req[r].pc = "ended",
                 !.req[r].endedBy = "fault",
                 !.req[r].fault = error])
  /\ UNCHANGED budget

\* ---- timers of the relay ----

\* setTimeout(..., 10 * 60 * 1000): ten minutes after the relay started.
\* A relay that saw no update at all is auto-killed after five minutes,
\* which clears this timer, so the timeout only fires after an update.
streamTimeout(r) ==
  /\ req[r].timeoutArmed
  /\ req[r].updateCount > 0
  /\ SetWorld(sendError([World EXCEPT !.req[r].timeoutArmed = FALSE],
                        r, TimeoutText))
  /\ UNCHANGED budget

\* setInterval(..., 5000), the run that finds more than five minutes since
\* the last update; the earlier runs only log
heartbeatInterval(r) ==
  /\ req[r].heartbeatArmed
  /\ LET id == req[r].sessionId
         W1 == ClearTimers(World, r)
         W2 == IF id \in DOMAIN agentSessions
                  /\ agentSessions[id].currentSubmission # None
               THEN Cancel(W1, agentSessions[id].currentSubmission)
               ELSE W1
     IN SetWorld(sendError(W2, r, HungText))
  /\ UNCHANGED budget

\* thirty minutes pass without a request for session id
SessionExpires(id) ==
  /\ id \in DOMAIN agentSessions
  /\ ~agentSessions[id].expired
  /\ \A r \in Reqs : req[r].sessionId = id =>
        /\ req[r].pc # "delay"
        /\ ~req[r].timeoutArmed
        /\ ~req[r].heartbeatArmed
  /\ agentSessions' = [agentSessions EXCEPT ![id].expired = TRUE]
  /\ notFound' = FALSE
  /\ UNCHANGED <<req, heap, dataStore, disk, budget, view>>

\* ---- consumer side of the stream ----

\* a disconnect that also cancels the engine's submission
StreamCancel_CancelsEngine(r) ==
  /\ req[r].response = "stream"
  /\ ~req[r].controllerClosed
  /\ SetWorld([Cancel(World, r) EXCEPT
                 !.req[r].controllerClosed = TRUE,
                 !.agentSessions = ClearSession(@, req[r].sessionId)])
  /\ UNCHANGED budget

\* ReadableStream.cancel: the consumer disconnects from an open stream
StreamCancel(r) ==
  /\ req[r].response = "stream"
  /\ ~req[r].controllerClosed
  /\ SetWorld([World EXCEPT
                 !.req[r].controllerClosed = TRUE,
                 !.agentSessions = ClearSession(@, req[r].sessionId)])
  /\ UNCHANGED budget

\* ---- DELETE /api/agent ----

\* a kill that closes the attached sink without the termination item
KillSession_ClosesSilently(W, id, text) ==
  LET s == W.agentSessions[id]
      W1 == IF s.currentSubmission # None THEN Cancel(W, s.currentSubmission)
            ELSE W
  IN IF s.currentController # None
     THEN [W1 EXCEPT !.req[s.currentController].controllerClosed = TRUE]
     ELSE W1

\* cancel the submission and close the attached sink of session id
KillSession(W, id, text) ==
  LET s == W.agentSessions[id]
      W1 == IF s.currentSubmission # None THEN Cancel(W, s.currentSubmission)
            ELSE W
  IN IF s.currentController # None
     THEN CloseWith(W1, s.currentController, text)
     ELSE W1

AllIds == SuppliedIds \cup {RandomUUID(r) : r \in Reqs}

RECURSIVE KillEach(_, _)
KillEach(W, ids) ==
  IF ids = {} THEN W
  ELSE LET id == CHOOSE x \in ids : TRUE
       IN KillEach(KillSession(W, id, KilledAllText), ids \ {id})

\* the DELETE handler on world W; notFound is its 404 "Session not found"
Kill(W, sessionId) ==
  IF sessionId # NoId
  THEN IF sessionId \notin DOMAIN W.agentSessions
       THEN [W EXCEPT !.notFound = TRUE]
       ELSE [KillSession(W, sessionId, KilledText) EXCEPT
               !.agentSessions = DeleteSession(@, sessionId)]
  ELSE [KillEach(W, DOMAIN W.agentSessions) EXCEPT
          !.agentSessions = EmptyMap]

DELETE(sessionId) ==
  /\ SetWorld(Kill(World, sessionId))
  /\ UNCHANGED budget

\* GET /api/agent: the ids of the inspect listing
GET(S) == DOMAIN S

\* ---- /api/tasks ----

TasksDeleteOne(taskId) ==
  /\ SetWorld(deleteTask(World, taskId))
  /\ UNCHANGED budget

TasksDelete(clearAll) ==
  /\ SetWorld(IF clearAll THEN clearAllCache(World) ELSE clearCompleted(World))
  /\ UNCHANGED budget

\* ---- the client's copy of a task and POST /api/tasks/save ----

ClientUserMsgId(r) == "c" \o ToString(r) \o "u"
ClientAsstMsgId(r) == "c" \o ToString(r) \o "a"

\* the status the client holds after the items of sink: the error case and
\* the done case of handleAction
RECURSIVE ClientStatus(_)
ClientStatus(sink) ==
  IF sink = <<>> THEN "running"
  ELSE LET data == sink[Len(sink)]
           before == ClientStatus(SubSeq(sink, 1, Len(sink) - 1))
       IN CASE data.type = "error" -> "failed"
            [] data.type = "done" -> "completed"
            [] OTHER -> before

RECURSIVE ClientError(_)
ClientError(sink) ==
  IF sink = <<>> THEN ""
  ELSE LET data == sink[Len(sink)] IN
       IF data.type = "error" THEN data.text
       ELSE ClientError(SubSeq(sink, 1, Len(sink) - 1))

RECURSIVE ClientTokens(_)
ClientTokens(sink) ==
  IF sink = <<>> THEN 0
  ELSE ClientTokens(SubSeq(sink, 1, Len(sink) - 1))
         + (IF sink[Len(sink)].type = "token-delta"
            THEN sink[Len(sink)].tokens ELSE 0)

\* the content of the client's assistant message: the text-delta case
RECURSIVE ClientContent(_)
ClientContent(sink) ==
  IF sink = <<>> THEN <<>>
  ELSE LET data == sink[Len(sink)]
           before == ClientContent(SubSeq(sink, 1, Len(sink) - 1))
       IN IF data.type = "text-delta" THEN Cat(before, data.text)
          ELSE before

\* the task the client of request r holds after reading the items pushed so
\* far: its own user and assistant messages under its own ids (the
\* metadata of the client's message is left out)
ClientTask(r) ==
  LET sink == req[r].sink IN
  [id |-> req[r].taskId,
   status |-> ClientStatus(sink),
   error |-> ClientError(sink),
   tokenCount |-> InitTask(req[r].taskId).tokenCount + ClientTokens(sink),
   messages |->
     << [id |-> ClientUserMsgId(r), role |-> "user", content |-> <<"msg">>,
         isStreaming |-> FALSE, metaOf |-> None],
        [id |-> ClientAsstMsgId(r), role |-> "assistant",
         content |-> ClientContent(sink),
         isStreaming |-> ClientStatus(sink) # "completed",
         metaOf |-> None] >>]

\* POST /api/tasks/save with the client's copy of the task of request r,
\* sent by the debounced saveTaskToDb while the client reads the stream
TasksSave(r) ==
  /\ req[r].response = "stream"
  /\ req[r].taskId # NoTask
  /\ LET W1 == [World EXCEPT !.heap[ClientObj] = ClientTask(r)] IN
     SetWorld(IF getTask(W1, req[r].taskId) # None
              THEN updateTask(W1, ClientObj)
              ELSE saveTask(W1, ClientObj))
  /\ UNCHANGED budget

\* ---- the client's view of a task (AgentView) ----

\* the task shown by AgentView with its last message, the component's
\* stuck state and its interval; times are whole seconds, None is undefined
NoView ==
  [now |-> 1, status |-> "none", isStreaming |-> FALSE,
   lastUpdateTime |-> None, created |-> None, isStuck |-> FALSE,
   interval |-> None, pc |-> "idle", sent |-> <<>>, slot |-> None]

\* checkStuck of the effect that captured lastUpdateTime
checkStuck(v, lastUpdateTime) ==
  LET secondsStuck == v.now - lastUpdateTime IN
  [v EXCEPT !.isStuck = secondsStuck >= STUCK_SECONDS]

\* the stuck-detection effect, run after the task changed: the clean-up of
\* the previous run clears its interval, then the body runs
StuckEffect(v) ==
  LET v0 == [v EXCEPT !.interval = None] IN
  IF v0.status # "running" THEN [v0 EXCEPT !.isStuck = FALSE]
  ELSE IF ~v0.isStreaming THEN [v0 EXCEPT !.isStuck = FALSE]
  ELSE IF v0.lastUpdateTime = None THEN v0
  ELSE [checkStuck(v0, v0.lastUpdateTime) EXCEPT
          !.interval = v0.lastUpdateTime]

ServerUnchanged ==
  UNCHANGED <<agentSessions, req, heap, dataStore, disk, budget, notFound>>

\* generateSessionId: a digest of the repository path and the prompt,
\* different for different prompts
generateSessionId(repoPath, prompt) ==
  "session-" \o repoPath \o "::" \o prompt

\* the request slot the next fetch of the client will take at the server
FreeSlot ==
  IF \E r \in Reqs : req[r].pc = "new"
  THEN CHOOSE r \in Reqs : NextArrival(r)
  ELSE None

\* handleAction up to its first fetch: the task is set to running with a
\* new streaming assistant message as its last message, the time of its
\* creation recorded in the message's metadata, and the request is sent
\* with the session id generated for the action
ClientStart ==
  /\ view.pc \notin {"fetching", "retryWait"}
  /\ FreeSlot # None
  /\ view' = StuckEffect([view EXCEPT
                            !.status = "running",
                            !.isStreaming = TRUE,
                            !.lastUpdateTime = None,
                            !.created = view.now,
                            !.pc = "fetching",
                            !.sent = <<generateSessionId("d1", "msg")>>,
                            !.slot = FreeSlot])
  /\ ServerUnchanged

\* the catch block of handleAction: the task is marked failed
ClientFailed(v) ==
  StuckEffect([v EXCEPT !.status = "failed", !.isStreaming = FALSE,
                        !.pc = "failed"])

\* a client that answers every conflict with another retry
ClientResponse_RetriesEveryConflict ==
  /\ view.pc = "fetching"
  /\ req[view.slot].response # "none"
  /\ LET status == req[view.slot].response IN
     view' = IF status = "stream" THEN [view EXCEPT !.pc = "reading"]
             ELSE IF status = "409" THEN [view EXCEPT !.pc = "retryWait"]
             ELSE ClientFailed(view)
  /\ ServerUnchanged

\* the response of the request in flight arrives at handleAction; the
\* server's only 409 carries sessionCleared: true
ClientResponse ==
  /\ view.pc = "fetching"
  /\ req[view.slot].response # "none"
  /\ LET status == req[view.slot].response IN
     view' = IF status = "stream" THEN [view EXCEPT !.pc = "reading"]
             ELSE IF status = "409" /\ Len(view.sent) = 1
             THEN [view EXCEPT !.pc = "retryWait"]
             ELSE ClientFailed(view)
  /\ ServerUnchanged

\* after the two seconds of the retry delay: the request is sent again with
\* the session id generated from the prompt with "-retry" appended
ClientRetry ==
  /\ view.pc = "retryWait"
  /\ FreeSlot # None
  /\ view' = [view EXCEPT
                !.pc = "fetching",
                !.sent = Append(@, generateSessionId("d1", "msg" \o "-retry")),
                !.slot = FreeSlot]
  /\ ServerUnchanged

\* the server takes up the request the client has in flight
ClientPost(r, outcome) ==
  /\ view.pc = "fetching"
  /\ view.slot = r
  /\ \E t \in TaskIds : Post(r, view.sent[Len(view.sent)], "d1", t, outcome)

\* the client reads an item of the stream; kind is how handleAction treats
\* it: through updateAssistantMessage, through updateTask alone, as the
\* error item, or as the done item
ClientItem(kind) ==
  /\ view.status = "running"
  /\ view.isStreaming
  /\ view' = StuckEffect(
       CASE kind = "message" -> [view EXCEPT !.lastUpdateTime = view.now,
                                             !.pc = "reading"]
         [] kind = "task" -> [view EXCEPT !.pc = "reading"]
         [] kind = "error" -> [view EXCEPT !.status = "failed",
                                           !.isStreaming = FALSE,
                                           !.pc = "reading"]
         [] OTHER -> [view EXCEPT !.status = "completed",
                                  !.isStreaming = FALSE,
                                  !.lastUpdateTime = view.now,
                                  !.pc = "reading"])
  /\ ServerUnchanged

\* the Dismiss button of the warning
Dismiss ==
  /\ view.isStuck
  /\ view' = [view EXCEPT !.isStuck = FALSE]
  /\ ServerUnchanged

\* a second passes; the interval of the effect, if set, runs checkStuck
Tick ==
  /\ view.now < MaxClock
  /\ LET v == [view EXCEPT !.now = @ + 1] IN
     view' = IF v.interval # None THEN checkStuck(v, v.interval) ELSE v
  /\ ServerUnchanged

InitStore ==
  /\ view = NoView
  /\ agentSessions = EmptyMap
  /\ heap = [o \in ObjIds |-> InitTask("t1")]
  /\ dataStore = <<1>>
  /\ disk = [t \in TaskIds |->
               [id |-> t, status |-> "running", error |-> "",
                tokenCount |-> 0, messages |-> <<>>]]

\* ---- Spec: concurrent requests that name the same session id ----

Init ==
  /\ InitStore
  /\ req = [r \in Reqs |-> NewReq]
  /\ budget = MaxUpdates
  /\ notFound = FALSE

Next ==
  \/ \E r \in Reqs, status \in {"400", "500"} : PostInvalid(r, status)
  \/ \E r \in Reqs, id \in SuppliedIds, wd \in Dirs,
        t \in TaskIds \cup {NoTask}, outcome \in Outcomes :
          Post(r, id, wd, t, outcome)
  \/ \E r \in Reqs, outcome \in Outcomes : PostResume(r, outcome)
  \/ \E r \in Reqs, u \in CoreUpdates : RelayUpdate(r, u)
  \/ \E r \in Reqs : StreamEnd(r)
  \/ \E r \in Reqs : StreamDone(r)
  \/ \E r \in Reqs, error \in Faults : StreamFault(r, error)
  \/ \E r \in Reqs : streamTimeout(r)
  \/ \E r \in Reqs : heartbeatInterval(r)
  \/ \E id \in AllIds : SessionExpires(id)
  \/ \E r \in Reqs : StreamCancel(r)
  \/ \E id \in SuppliedIds \cup {NoId} : DELETE(id)

Spec == Init /\ [][Next]_vars

\* ---- SpecRelay: the stream of one request, with the task store ----

InitRelay ==
  /\ InitStore
  /\ req = [r \in Reqs |-> IF r = 1 THEN NewReq
                           ELSE [NewReq EXCEPT !.pc = "unused"]]
  /\ budget = MaxRelayUpdates
  /\ notFound = FALSE

NextRelay ==
  \/ \E r \in Reqs, status \in {"400", "500"} : PostInvalid(r, status)
  \/ \E r \in Reqs, id \in SuppliedIds \cup {NoId}, wd \in Dirs \cup {NoDir},
        t \in TaskIds \cup {NoTask}, outcome \in Outcomes :
          Post(r, id, wd, t, outcome)
  \/ \E r \in Reqs, u \in Updates : RelayUpdate(r, u)
  \/ \E r \in Reqs : StreamEnd(r)
  \/ \E r \in Reqs : StreamDone(r)
  \/ \E r \in Reqs, error \in Faults : StreamFault(r, error)
  \/ \E r \in Reqs : streamTimeout(r)
  \/ \E r \in Reqs : heartbeatInterval(r)
  \/ \E id \in AllIds : SessionExpires(id)
  \/ \E r \in Reqs : StreamCancel(r)
  \/ \E id \in AllIds \cup {NoId} : DELETE(id)
  \/ \E t \in TaskIds : TasksDeleteOne(t)
  \/ \E clearAll \in BOOLEAN : TasksDelete(clearAll)

SpecRelay == InitRelay /\ [][NextRelay]_vars

\* ---- SpecKill: sessions under several ids, without tasks ----

NextKill ==
  \/ \E r \in Reqs, status \in {"400", "500"} : PostInvalid(r, status)
  \/ \E r \in Reqs, id \in SuppliedIds \cup {NoId}, outcome \in Outcomes :
          Post(r, id, NoDir, NoTask, outcome)
  \/ \E r \in Reqs, outcome \in Outcomes : PostResume(r, outcome)
  \/ \E r \in Reqs, u \in CoreUpdates : RelayUpdate(r, u)
  \/ \E r \in Reqs : StreamEnd(r)
  \/ \E r \in Reqs : StreamDone(r)
  \/ \E r \in Reqs, error \in Faults : StreamFault(r, error)
  \/ \E r \in Reqs : streamTimeout(r)
  \/ \E r \in Reqs : heartbeatInterval(r)
  \/ \E id \in AllIds : SessionExpires(id)
  \/ \E r \in Reqs : StreamCancel(r)
  \/ \E id \in AllIds \cup {NoId} : DELETE(id)

SpecKill == Init /\ [][NextKill]_vars

\* ---- SpecLong: one long stream of a request with a task ----

\* the updates of a long stream: one that creates and extends the message,
\* one that does not
LongUpdates ==
  { Upd("text-delta", "x", "", "", 0, TRUE),
    Upd("token-delta", "", "", "", 1, TRUE) }

InitLong ==
  /\ InitStore
  /\ req = [r \in Reqs |-> IF r = 1 THEN NewReq
                           ELSE [NewReq EXCEPT !.pc = "unused"]]
  /\ budget = MaxLongUpdates
  /\ notFound = FALSE

NextLong ==
  \/ \E r \in Reqs, t \in TaskIds : Post(r, NoId, NoDir, t, "ok")
  \/ \E r \in Reqs, u \in LongUpdates : RelayUpdate(r, u)
  \/ \E r \in Reqs : StreamEnd(r)
  \/ \E r \in Reqs : StreamDone(r)
  \/ \E r \in Reqs, error \in Faults : StreamFault(r, error)
  \/ \E r \in Reqs : streamTimeout(r)
  \/ \E r \in Reqs : heartbeatInterval(r)

SpecLong == InitLong /\ [][NextLong]_vars

\* ---- SpecStore: one stream with a task, next to the /api/tasks routes ----

\* updates that extend the content, extend the metadata, and save
StoreUpdates ==
  { Upd("text-delta", "x", "", "", 0, TRUE),
    Upd("thinking-delta", "y", "", "", 0, TRUE),
    Upd("summary", "z", "", "", 0, TRUE) }

InitStoreSpec ==
  /\ InitStore
  /\ req = [r \in Reqs |-> IF r = 1 THEN NewReq
                           ELSE [NewReq EXCEPT !.pc = "unused"]]
  /\ budget = MaxStoreUpdates
  /\ notFound = FALSE

NextStore ==
  \/ \E r \in Reqs, t \in TaskIds : Post(r, NoId, NoDir, t, "ok")
  \/ \E r \in Reqs, u \in StoreUpdates : RelayUpdate(r, u)
  \/ \E r \in Reqs : StreamEnd(r)
  \/ \E r \in Reqs : StreamDone(r)
  \/ \E r \in Reqs, error \in Faults : StreamFault(r, error)
  \/ \E t \in TaskIds : TasksDeleteOne(t)
  \/ \E clearAll \in BOOLEAN : TasksDelete(clearAll)
  \/ \E r \in Reqs : TasksSave(r)

SpecStore == InitStoreSpec /\ [][NextStore]_vars

\* ---- SpecStuck: the stuck warning of the client's view ----

ItemKinds == {"message", "task", "error", "done"}

NextStuck ==
  \/ ClientStart
  \/ \E kind \in ItemKinds : ClientItem(kind)
  \/ Dismiss
  \/ Tick

SpecStuck == Init /\ [][NextStuck]_vars

\* ---- SpecRetry: one client action with its retry, and the server ----

NextRetry ==
  \/ ClientStart
  \/ \E r \in Reqs, outcome \in Outcomes : ClientPost(r, outcome)
  \/ ClientResponse
  \/ ClientRetry
  \/ \E r \in Reqs, u \in CoreUpdates : RelayUpdate(r, u)
  \/ \E r \in Reqs : StreamEnd(r)
  \/ \E r \in Reqs : StreamDone(r)
  \/ \E r \in Reqs, error \in Faults : StreamFault(r, error)

SpecRetry == Init /\ [][NextRetry]_vars

\* ---- the client's message builder (handleAction) ----

\* the switch over data.type for the tool calls of the assistant message:
\* both cases write the record under data.callId
handleAction(toolCalls, data) ==
  IF data.type = "tool-call-started" /\ data.callId # ""
  THEN [c \in DOMAIN toolCalls \cup {data.callId} |->
          IF c = data.callId THEN [type |-> "shell", result |-> ""]
          ELSE toolCalls[c]]
  ELSE IF data.type = "tool-call-completed" /\ data.callId # ""
  THEN [c \in DOMAIN toolCalls \cup {data.callId} |->
          IF c = data.callId THEN [type |-> "shell", result |-> data.status]
          ELSE toolCalls[c]]
  ELSE toolCalls

\* the tool calls of the client's assistant message after the items of sink
RECURSIVE ClientToolCalls(_)
ClientToolCalls(sink) ==
  IF sink = <<>> THEN EmptyMap
  ELSE handleAction(ClientToolCalls(SubSeq(sink, 1, Len(sink) - 1)),
                    sink[Len(sink)])

\* ---- SpecLive: SpecKill with the scheduling of timers and handlers ----

\* a timer that stays armed fires, and a handler in its settle delay
\* resumes; nothing is assumed of the engine or of the clients
Fairness ==
  \A r \in Reqs :
    /\ WF_vars(heartbeatInterval(r))
    /\ WF_vars(streamTimeout(r))
    /\ WF_vars(\E outcome \in Outcomes : PostResume(r, outcome))

SpecLive == Init /\ [][NextKill]_vars /\ Fairness

\* ---- properties: the session registry ----

Last(s) == s[Len(s)]

\* relay r is iterating its engine stream and its sink is open
Relaying(r) ==
  /\ req[r].pc = "iterating"
  /\ ~req[r].controllerClosed

\* request r is taken up by the POST handler in this step
Arrives(r) ==
  /\ req[r].pc = "new"
  /\ req'[r].pc # "new"

\* C1: single-flight: no two relays of one session id are at the same time
\* iterating an engine stream with an open sink
C1_SingleFlight ==
  \A r1, r2 \in Reqs :
    (r1 # r2 /\ Relaying(r1) /\ Relaying(r2))
      => req[r1].sessionId # req[r2].sessionId

\* the escalation is complete when the handler of r reaches its settle delay:
\* the old sink (of entry s, before the step) got the error item and is
\* closed, the entry under id is Idle with the same engine handle, and the
\* engine's submit has not been invoked for r
EscalatesFirst(r, id, s) ==
  /\ req'[r].pc = "delay"
  /\ req'[r].submitOutcome = "none"
  /\ req'[r].sink = <<>>
  /\ s.currentController # None =>
       /\ req'[s.currentController].controllerClosed
       /\ Last(req'[s.currentController].sink) = ErrorEvent(InterruptedText)
  /\ id \in DOMAIN agentSessions'
  /\ agentSessions'[id].currentController = None
  /\ agentSessions'[id].currentSubmission = None
  /\ ~agentSessions'[id].isSubmitting
  /\ agentSessions'[id].agent = s.agent
  /\ req'[r].agent = s.agent

\* the engine's submit is invoked for an escalating request only out of the
\* settle delay, under the id and on the engine handle taken on arrival
SubmitsAfterDelay(r) ==
  (req'[r].forced /\ req[r].submitOutcome = "none"
     /\ req'[r].submitOutcome # "none")
    => /\ req[r].pc = "delay"
       /\ req'[r].sessionId = req[r].sessionId
       /\ req'[r].agent = req[r].agent
       /\ req'[r].response = "stream" =>
            req'[r].sink = <<SessionEvent(req[r].sessionId)>>

KnownAgents ==
  ({agentSessions[x].agent : x \in DOMAIN agentSessions}
     \cup {req[k].agent : k \in Reqs}) \ {None}

\* C3: directory binding: an accepted request runs on an existing engine
\* handle only if its id is in the registry with a stored working directory
\* equal to the requested one; otherwise it runs on a newly created handle,
\* and the entry under its id is bound to the requested directory
C3_DirectoryBinding ==
  [][\A r \in Reqs :
       (Arrives(r) /\ req'[r].sessionId # NoId) =>
         LET id == req'[r].sessionId
             a == req'[r].agent
         IN /\ a # None
            /\ a \in KnownAgents =>
                 /\ id \in DOMAIN agentSessions
                 /\ agentSessions[id].agent = a
                 /\ agentSessions[id].workingDirectory = req'[r].directory
            /\ id \in DOMAIN agentSessions' =>
                 /\ agentSessions'[id].agent = a
                 /\ agentSessions'[id].workingDirectory = req'[r].directory]_vars

\* a request with the id and the directory of an earlier one runs on the
\* earlier one's engine handle
C3_Witness ==
  \E r1, r2 \in Reqs :
    /\ r1 # r2
    /\ req[r1].agent # None
    /\ req[r2].agent = req[r1].agent
    /\ req[r2].sessionId = req[r1].sessionId
    /\ req[r2].directory = req[r1].directory

\* C4: nuclear option: when the engine's submit reports busy the request
\* gets the 409 (sessionCleared) response, its session is no longer in the
\* registry, and nothing is ever streamed for it
C4_NuclearOption ==
  [][\A r \in Reqs :
       /\ (req[r].submitOutcome # "busy" /\ req'[r].submitOutcome = "busy")
            => /\ req'[r].response = "409"
               /\ req'[r].pc = "ended"
               /\ req'[r].sessionId \notin DOMAIN agentSessions'
               /\ req'[r].sink = <<>>
       /\ req[r].submitOutcome = "busy"
            => /\ req'[r].response = "409"
               /\ req'[r].sink = <<>>]_vars

C4_Witness ==
  \E r \in Reqs :
    /\ req[r].submitOutcome = "busy"
    /\ req[r].response = "409"
    /\ req[r].sessionId \notin DOMAIN agentSessions

\* C5: in every registry entry the cancel token is present only while the
\* entry is Submitting, and the sink is present only while the entry is
\* Submitting and that sink has not been closed
C5_SessionFields ==
  \A id \in DOMAIN agentSessions :
    LET s == agentSessions[id] IN
    /\ s.currentSubmission # None => s.isSubmitting
    /\ s.currentController # None =>
         /\ s.isSubmitting
         /\ ~req[s.currentController].controllerClosed

\* a relay has closed its sink and its session is Idle again
C5_Witness ==
  \E r \in Reqs :
    /\ req[r].response = "stream"
    /\ req[r].controllerClosed
    /\ req[r].sessionId \in DOMAIN agentSessions
    /\ ~agentSessions[req[r].sessionId].isSubmitting
    /\ agentSessions[req[r].sessionId].currentController = None
    /\ agentSessions[req[r].sessionId].currentSubmission = None

\* C6: the first item on the sink of every stream is the session event with
\* the id of the session in use: whatever a forced stop, a kill or a timer
\* pushes comes after it
C6_SessionEventFirst ==
  \A r \in Reqs :
    /\ req[r].response = "stream" => req[r].sink # <<>>
    /\ req[r].sink # <<>> =>
         /\ req[r].response = "stream"
         /\ req[r].sink[1] = SessionEvent(req[r].sessionId)
         /\ \A i \in 2..Len(req[r].sink) : req[r].sink[i].type # "session"

\* another writer pushed its error right behind the session event
C6_Witness ==
  \E r \in Reqs :
    /\ req[r].updateCount = 0
    /\ Len(req[r].sink) = 2
    /\ req[r].sink[1] = SessionEvent(req[r].sessionId)
    /\ req[r].sink[2] \in {ErrorEvent(InterruptedText), ErrorEvent(KilledText),
                           ErrorEvent(HungText)}

\* ---- properties: the streaming relay ----

\* neither the relay nor anyone else has closed the stream of r
StreamOpen(r) ==
  /\ ~req[r].streamClosed
  /\ ~req[r].controllerClosed

\* in this step stream.done resolves for r, after the engine's sequence
\* was exhausted
Exhausts(r) ==
  /\ req[r].pc = "awaitDone"
  /\ req'[r].endedBy = "exhausted"

\* the entry under the id of r, if there is one, is Idle after the step
SessionIdleAfter(r) ==
  req[r].sessionId \in DOMAIN agentSessions' =>
    LET s == agentSessions'[req[r].sessionId] IN
    /\ ~s.isSubmitting
    /\ s.currentController = None
    /\ s.currentSubmission = None

\* the task of r, if it has one that is in the store
HasStoredTask(r) ==
  /\ req[r].task # None
  /\ getTask(World, req[r].taskId) # None

\* the state the relay of r leaves behind when it completes in this step
CompletedNormally(r) ==
  /\ req'[r].sink = Append(req[r].sink, DoneEvent)
  /\ req'[r].controllerClosed
  /\ req'[r].pc = "ended"
  /\ SessionIdleAfter(r)
  /\ HasStoredTask(r) =>
       LET t == disk'[req[r].taskId] IN
       /\ t.status = "completed"
       /\ req[r].asst # NoMsg => HasId(t.messages, AsstMsgId(r))
       /\ \A i \in 1..Len(t.messages) :
            t.messages[i].id = AsstMsgId(r) => ~t.messages[i].isStreaming

\* C7 (as stated): when the engine's sequence is exhausted normally the
\* relay pushes done as the last item, closes the sink, leaves the session
\* Idle and the persisted task completed with isStreaming = false
C7_AnyExhaustion ==
  [][\A r \in Reqs : Exhausts(r) => CompletedNormally(r)]_vars

\* C7 (amended): the same, when the stream is still open at that moment
\* (no timer, forced stop, kill or disconnect has closed it before)
C7_NormalCompletion ==
  [][\A r \in Reqs :
       (Exhausts(r) /\ StreamOpen(r)) => CompletedNormally(r)]_vars

\* a relay with a task and an assistant message has completed normally
C7_Witness ==
  \E r \in Reqs :
    /\ req[r].endedBy = "exhausted"
    /\ Last(req[r].sink) = DoneEvent
    /\ req[r].asst # NoMsg
    /\ req[r].taskId \in DOMAIN disk
    /\ disk[req[r].taskId].status = "completed"
    /\ HasId(disk[req[r].taskId].messages, AsstMsgId(r))

\* C8: behind the session event the items of a sink are, one for one and in
\* order, the engine's events (each as itself or as its substitute error):
\* all of them while the sink is open, a prefix of them once it is closed,
\* followed by at most the one item that closed it
C8_RelayFidelity ==
  \A r \in Reqs :
    req[r].response = "stream" =>
      LET s == req[r].sink
          n == Len(req[r].events)
      IN \E k \in 0..n :
           /\ Len(s) >= 1 + k
           /\ \A i \in 1..k : s[1 + i] = Deliver(req[r].events[i])
           /\ IF req[r].controllerClosed
              THEN /\ Len(s) <= 2 + k
                   /\ Len(s) = 2 + k => s[2 + k].type \in {"error", "done"}
              ELSE /\ k = n
                   /\ Len(s) = 1 + n

\* two different events have been relayed, in their order, on an open sink
C8_Witness ==
  \E r \in Reqs :
    /\ ~req[r].controllerClosed
    /\ Len(req[r].events) = 2
    /\ req[r].events[1] # req[r].events[2]
    /\ req[r].sink = <<SessionEvent(req[r].sessionId),
                       Deliver(req[r].events[1]),
                       Deliver(req[r].events[2])>>

\* the relay of r takes one more event from the engine in this step
Receives(r) ==
  /\ req[r].pc = "iterating"
  /\ Len(req'[r].events) = Len(req[r].events) + 1

HadSerializationFailure(r) ==
  \E i \in 1..Len(req[r].events) : ~req[r].events[i].enc

\* on an open stream an event is delivered, as itself or as its substitute
\* error, the relay keeps iterating, and an event that cannot be encoded
\* leaves the task's status and error alone
DeliversAndContinues(r) ==
  (Receives(r) /\ StreamOpen(r)) =>
    LET u == Last(req'[r].events) IN
    /\ req'[r].sink = Append(req[r].sink, Deliver(u))
    /\ ~u.enc => Last(req'[r].sink) = SerializeErrorEvent
    /\ req'[r].pc = "iterating"
    /\ ~req'[r].streamClosed
    /\ ~req'[r].controllerClosed
    /\ (~u.enc /\ req[r].task # None) =>
         /\ heap'[req[r].task].status = heap[req[r].task].status
         /\ heap'[req[r].task].error = heap[req[r].task].error

\* C9 (as stated): a serialization failure is not fatal: the substitute
\* error is pushed in the event's place, the relay keeps iterating and
\* delivers the later events, and the stream, when its sequence is
\* exhausted normally, still ends with done and a completed task
C9_AnyExhaustionAfterFailure ==
  [][\A r \in Reqs :
       /\ DeliversAndContinues(r)
       /\ (Exhausts(r) /\ HadSerializationFailure(r))
            => CompletedNormally(r)]_vars

\* C9 (amended): the same, the ending with done and a completed task being
\* that of a stream still open when its sequence is exhausted
C9_SerializationNonFatal ==
  [][\A r \in Reqs :
       /\ DeliversAndContinues(r)
       /\ (Exhausts(r) /\ StreamOpen(r) /\ HadSerializationFailure(r))
            => CompletedNormally(r)]_vars

\* after an event that could not be encoded a later event was delivered and
\* the stream completed with done and a completed task
C9_Witness ==
  \E r \in Reqs :
    /\ req[r].endedBy = "exhausted"
    /\ Len(req[r].events) = 2
    /\ ~req[r].events[1].enc
    /\ req[r].sink = <<SessionEvent(req[r].sessionId), SerializeErrorEvent,
                       Deliver(req[r].events[2]), DoneEvent>>
    /\ req[r].taskId \in DOMAIN disk
    /\ disk[req[r].taskId].status = "completed"

\* C10: a fault of the engine's iteration on a stream that has begun and is
\* still open puts the error event on the sink, closes it, leaves the
\* session Idle, and leaves the persisted task failed with the error text
C10_FaultFailsTask ==
  [][\A r \in Reqs :
       (/\ req[r].pc = "iterating"
        /\ StreamOpen(r)
        /\ req[r].endedBy = "none"
        /\ req'[r].endedBy = "fault")
         => /\ req'[r].sink =
                 Append(req[r].sink, ErrorEvent(ErrorMessage(req'[r].fault)))
            /\ req'[r].controllerClosed
            /\ SessionIdleAfter(r)
            /\ HasStoredTask(r) =>
                 /\ disk'[req[r].taskId].status = "failed"
                 /\ disk'[req[r].taskId].error = ErrorMessage(req'[r].fault)]_vars

\* ---- properties: error termination and the timers ----

\* in this step the open sink of r gets a closing error item
ClosesOnError(r) ==
  /\ req[r].response = "stream"
  /\ ~req[r].controllerClosed
  /\ req'[r].controllerClosed
  /\ Len(req'[r].sink) = Len(req[r].sink) + 1
  /\ Last(req'[r].sink).type = "error"

\* after the step the store holds what relay r has folded: the token count
\* and the assistant message with its content and metadata
CheckpointedAfter(r) ==
  HasStoredTask(r) =>
    LET t == disk'[req[r].taskId]
        a == req'[r].asst
    IN /\ t.tokenCount = req'[r].totalTokens
       /\ a # NoMsg =>
            \E i \in 1..Len(t.messages) :
              /\ t.messages[i].id = a.id
              /\ t.messages[i].content = a.content
              /\ t.messages[i].thinking = a.thinking
              /\ t.messages[i].toolCalls = a.toolCalls
              /\ t.messages[i].summaries = a.summaries

\* C11: whenever a stream that has begun is terminated because of an error
\* (engine fault, hard timeout, auto-kill, forced stop, kill), the store
\* holds a checkpoint of every event folded so far when the sink is closed
C11_CheckpointBeforeClose ==
  [][\A r \in Reqs : ClosesOnError(r) => CheckpointedAfter(r)]_vars

\* the cancel token registered for the session of r, if any
TokenOf(r) ==
  IF req[r].sessionId \in DOMAIN agentSessions
  THEN agentSessions[req[r].sessionId].currentSubmission
  ELSE None

\* the persisted task of r, if it has one in the store, is failed with
\* the given error text after the step
TaskFailedAfter(r, text) ==
  HasStoredTask(r) =>
    /\ disk'[req[r].taskId].status = "failed"
    /\ disk'[req[r].taskId].error = text

\* C12: inactivity auto-kill: when the heartbeat of an open relay finds more
\* than five minutes without an engine event, the cancel token is invoked
\* if present, the hung error is pushed, the sink is closed, and the
\* persisted task is failed with that message as its error
C12_InactivityAutoKill ==
  [][\A r \in Reqs :
       (heartbeatInterval(r) /\ StreamOpen(r)) =>
         /\ TokenOf(r) # None =>
              req'[TokenOf(r)].cancelCalls = req[TokenOf(r)].cancelCalls + 1
         /\ req'[r].sink = Append(req[r].sink, ErrorEvent(HungText))
         /\ req'[r].controllerClosed
         /\ TaskFailedAfter(r, HungText)]_vars

\* C13: hard timeout: when the ten-minute timer of an open relay fires, the
\* timeout error is pushed, the sink is closed, the session is Idle and
\* the persisted task is failed
C13_HardTimeout ==
  [][\A r \in Reqs :
       (streamTimeout(r) /\ StreamOpen(r)) =>
         /\ req'[r].sink = Append(req[r].sink, ErrorEvent(TimeoutText))
         /\ req'[r].controllerClosed
         /\ SessionIdleAfter(r)
         /\ TaskFailedAfter(r, TimeoutText)]_vars

\* a timer callback of relay r runs in this step
TimerFires(r) == streamTimeout(r) \/ heartbeatInterval(r)

\* the step calls no cancel(), pushes nothing, and leaves sessions and
\* tasks as they are
NoEffect ==
  /\ \A k \in Reqs :
       /\ req'[k].cancelCalls = req[k].cancelCalls
       /\ req'[k].sink = req[k].sink
  /\ UNCHANGED <<agentSessions, heap, dataStore, disk>>

\* C14: once the stream of a relay has been closed by any path, no later
\* timer callback of that relay calls cancel(), pushes an event, or
\* modifies a task or a session
C14_NoTimerAfterClose ==
  [][\A r \in Reqs :
       (TimerFires(r) /\ (req[r].controllerClosed \/ req[r].streamClosed))
         => NoEffect]_vars

\* the types of the items of a sink, in order
Types(sink) == [i \in 1..Len(sink) |-> sink[i].type]

\* the step leaves what a kill of the session of r, issued in its place,
\* would leave: the same cancel() calls, the same kinds of items on the
\* sink of r and the sink closed, and the same registry
SameAsKill(r) ==
  LET K == Kill(World, req[r].sessionId) IN
  /\ \A k \in Reqs : req'[k].cancelCalls = K.req[k].cancelCalls
  /\ Types(req'[r].sink) = Types(K.req[r].sink)
  /\ req'[r].controllerClosed = K.req[r].controllerClosed
  /\ agentSessions' = K.agentSessions

\* relay r is the one attached to the registry entry of its session
Attached(r) ==
  /\ req[r].sessionId \in DOMAIN agentSessions
  /\ agentSessions[req[r].sessionId].currentController = r
  /\ agentSessions[req[r].sessionId].currentSubmission = r

\* C15: a hard timeout and an inactivity auto-kill of a session each leave
\* the state a client-initiated kill of that session would leave at that
\* moment: cancel token, items pushed to the sink, registry entry
C15_TimersEquivalentToKill ==
  [][\A r \in Reqs :
       (TimerFires(r) /\ StreamOpen(r) /\ Attached(r)) => SameAsKill(r)]_vars

\* ---- properties: kill and cancellation ----

\* the sink attached to session id, if any, gets the termination error as
\* its last item and is closed by the step
KilledSink(id, text) ==
  LET c == agentSessions[id].currentController IN
  c # None =>
    /\ req'[c].sink = Append(req[c].sink, ErrorEvent(text))
    /\ req'[c].controllerClosed

\* C16: a kill pushes a termination error to each affected attached sink
\* before closing it and removes every killed id from the inspect listing,
\* where it stays absent until a submit names it again; a kill of an id that
\* is not in the registry reports not-found and changes nothing
C16_Kill ==
  [][/\ \A id \in AllIds :
          DELETE(id) =>
            IF id \in DOMAIN agentSessions
            THEN /\ ~notFound'
                 /\ KilledSink(id, KilledText)
                 /\ id \notin GET(agentSessions')
                 /\ GET(agentSessions') = GET(agentSessions) \ {id}
            ELSE /\ notFound'
                 /\ UNCHANGED <<agentSessions, req, heap, dataStore, disk>>
     /\ DELETE(NoId) =>
          /\ ~notFound'
          /\ \A id \in DOMAIN agentSessions : KilledSink(id, KilledAllText)
          /\ GET(agentSessions') = {}
     /\ \A id \in AllIds :
          (id \notin GET(agentSessions) /\ id \in GET(agentSessions'))
            => \E r \in Reqs : Arrives(r) /\ req'[r].sessionId = id]_vars

\* one of two registered sessions was killed while its relay was attached:
\* its sink ends with the termination error and its id is not listed
C16_Witness ==
  \E r, k \in Reqs :
    /\ r # k
    /\ req[r].controllerClosed
    /\ Last(req[r].sink) = ErrorEvent(KilledText)
    /\ req[r].sessionId \notin GET(agentSessions)
    /\ req[k].sessionId \in GET(agentSessions)
    /\ ~notFound

\* what a cancellation can change: the registry with the fields of every
\* session, the items pushed to every sink, the cancel() calls, the store
Outcome(W) ==
  [agentSessions |-> W.agentSessions,
   sink |-> [k \in Reqs |-> W.req[k].sink],
   controllerClosed |-> [k \in Reqs |-> W.req[k].controllerClosed],
   cancelCalls |-> [k \in Reqs |-> W.req[k].cancelCalls],
   heap |-> W.heap, dataStore |-> W.dataStore, disk |-> W.disk]

\* the escalation of POST for session id: it runs only on a session that is
\* submitting
Escalate(W, r, id, cancelThrows) ==
  IF W.agentSessions[id].isSubmitting
  THEN ForceStop(W, r, id, cancelThrows)
  ELSE W

\* the two cancellations leave the same outcome when repeated
CancelTwiceIsCancelOnce(id) ==
  /\ \A r \in Reqs : \A c1, c2 \in BOOLEAN :
        Outcome(Escalate(Escalate(World, r, id, c1), r, id, c2))
          = Outcome(Escalate(World, r, id, c1))
  /\ Outcome(Kill(Kill(World, id), id)) = Outcome(Kill(World, id))

\* C17 as stated: cancelling a session that is already Idle changes nothing,
\* the registry included, pushes nothing and calls no cancel(), and
\* cancelling a Submitting session twice is cancelling it once
C17_IdleCancelKeepsRegistry ==
  \A id \in DOMAIN agentSessions :
    /\ ~agentSessions[id].isSubmitting =>
         /\ \A r \in Reqs : \A c \in BOOLEAN :
               Outcome(Escalate(World, r, id, c)) = Outcome(World)
         /\ Outcome(Kill(World, id)) = Outcome(World)
    /\ agentSessions[id].isSubmitting => CancelTwiceIsCancelOnce(id)

\* C17: the escalation of POST on a session that is already Idle changes
\* nothing; a kill of an Idle session pushes nothing and calls no cancel()
\* but removes the session from the registry; cancelling a Submitting
\* session twice in succession leaves the same state as cancelling it once
C17_IdempotentCancellation ==
  \A id \in DOMAIN agentSessions :
    /\ ~agentSessions[id].isSubmitting =>
         /\ \A r \in Reqs : \A c \in BOOLEAN :
               Outcome(Escalate(World, r, id, c)) = Outcome(World)
         /\ Outcome(Kill(World, id))
              = [Outcome(World) EXCEPT
                   !.agentSessions = DeleteSession(@, id)]
    /\ agentSessions[id].isSubmitting => CancelTwiceIsCancelOnce(id)

\* a session that a force-stop has just made Idle: its previous sink is
\* closed with the interruption item after one cancel() call
C17_Witness ==
  \E r, k \in Reqs :
    /\ req[r].forced /\ req[r].pc = "delay"
    /\ req[r].sessionId \in DOMAIN agentSessions
    /\ ~agentSessions[req[r].sessionId].isSubmitting
    /\ req[k].sessionId = req[r].sessionId
    /\ req[k].controllerClosed
    /\ Len(req[k].sink) > 0
    /\ Last(req[k].sink) = ErrorEvent(InterruptedText)
    /\ req[k].cancelCalls = 1

\* the state before a force-stop of session id, with the cancel capability
\* present or absent and the attached sink open or already closed (a push
\* to a closed sink throws)
Variants(id) ==
  LET c == agentSessions[id].currentController
  IN {[World EXCEPT
         !.agentSessions[id].currentSubmission =
            IF absent THEN None ELSE @,
         !.req = IF closed /\ c # None
                 THEN [@ EXCEPT ![c].controllerClosed = TRUE]
                 ELSE @] : absent, closed \in BOOLEAN}

Cleared(s) ==
  /\ s.currentController = None
  /\ s.currentSubmission = None
  /\ ~s.isSubmitting

\* C18: the forced step does not depend on the graceful step: whether
\* cancel() returns or throws or the cancel capability is absent, and
\* whether the push to the old sink succeeds or throws, the force-stop
\* leaves the old sink closed and the session's sink, cancel token and
\* Submitting flag cleared, with the new request at the settle delay, its
\* submission not yet made
C18_ForcedStepIndependent ==
  \A id \in DOMAIN agentSessions :
    agentSessions[id].isSubmitting =>
      \A r \in Reqs : \A cancelThrows \in BOOLEAN : \A W \in Variants(id) :
        LET A == ForceStop(W, r, id, cancelThrows)
            c == W.agentSessions[id].currentController
        IN /\ Cleared(A.agentSessions[id])
           /\ c # None => A.req[c].controllerClosed
           /\ A.req[r].pc = "delay"
           /\ A.req[r].submitOutcome = W.req[r].submitOutcome
           /\ \A x \in DOMAIN agentSessions \ {id} :
                 A.agentSessions[x] = W.agentSessions[x]

\* a request waits in the settle delay on a session the force-stop has
\* cleared, while the engine of the stopped submission has neither ended
\* nor failed its stream after the cancel() call
C18_Witness ==
  \E r, k \in Reqs :
    /\ k # r
    /\ req[r].forced /\ req[r].pc = "delay"
    /\ req[r].submitOutcome = "none"
    /\ req[k].sessionId = req[r].sessionId
    /\ req[k].sessionId \in DOMAIN agentSessions
    /\ Cleared(agentSessions[req[k].sessionId])
    /\ req[k].controllerClosed
    /\ req[k].cancelCalls > 0
    /\ req[k].endedBy = "none"
    /\ req[k].heartbeatArmed

\* ---- properties: forward progress ----

\* session of request r is Submitting for r
SubmittingFor(r) ==
  /\ req[r].sessionId \in DOMAIN agentSessions
  /\ agentSessions[req[r].sessionId].isSubmitting
  /\ agentSessions[req[r].sessionId].currentSubmission = r

\* C19: forward progress: with timers and handlers scheduled fairly and
\* nothing assumed of the engine, the sink of every accepted submission is
\* eventually closed, its session eventually stops being Submitting for it,
\* and every request in the settle delay eventually gets its response
C19_ForwardProgress ==
  \A r \in Reqs :
    /\ (req[r].response = "stream") ~> req[r].controllerClosed
    /\ SubmittingFor(r) ~> ~SubmittingFor(r)
    /\ (req[r].pc = "delay") ~> (req[r].response # "none")

\* ---- properties: the message builders ----

\* the callIds of the tool-call-started events of a sequence
StartedIds(seq) ==
  {seq[i].callId : i \in {j \in 1..Len(seq) :
                            /\ seq[j].type = "tool-call-started"
                            /\ seq[j].callId # ""}}

\* the server builder: the message under construction and every stored
\* copy of it hold tool-call records of started callIds only
ServerRecordsStarted(r) ==
  /\ DOMAIN req[r].asst.toolCalls \subseteq StartedIds(req[r].events)
  /\ \A t \in DOMAIN disk : \A i \in 1..Len(disk[t].messages) :
        disk[t].messages[i].id = AsstMsgId(r) =>
          DOMAIN disk[t].messages[i].toolCalls
            \subseteq StartedIds(req[r].events)

\* the client builder, over the items it has received
ClientRecordsStarted(r) ==
  DOMAIN ClientToolCalls(req[r].sink) \subseteq StartedIds(req[r].sink)

\* C20: unmatched completion safety: a tool-call-completed event whose
\* callId was not started before in the same message does not end the
\* processing and creates no record, in the server builder and in the
\* client builder, so the keys of a message's toolCalls are callIds that
\* were started
C20_UnmatchedCompletionSafety ==
  \A r \in Reqs : ServerRecordsStarted(r) /\ ClientRecordsStarted(r)

\* ---- properties: checkpoints ----

\* relay r has a task that is in the store and has not ended its stream
StreamingWithTask(r) ==
  /\ req[r].response = "stream"
  /\ HasStoredTask(r)
  /\ ~req[r].streamClosed

\* the events folded by r since the last write of its task
Unsaved(q) == q.updateCount - q.savedAt

\* in this step the relay of r ends its stream with an error or with done
Terminates(r) ==
  /\ StreamingWithTask(r)
  /\ req'[r].streamClosed

\* C21: checkpoint bound: while a relay with a task is streaming, at most 9
\* events are folded since the last write of the task; every 10th event,
\* every tool-call-completed and summary event and every error or done
\* termination writes the task
C21_CheckpointBound ==
  [][\A r \in Reqs :
       /\ (StreamingWithTask(r) /\ ~req'[r].streamClosed)
            => Unsaved(req'[r]) < SAVE_EVERY
       /\ (StreamingWithTask(r) /\ Receives(r)) =>
            LET u == Last(req'[r].events) IN
            (\/ req'[r].updateCount % SAVE_EVERY = 0
             \/ u.type \in {"tool-call-completed", "summary"})
              => Unsaved(req'[r]) = 0
       /\ Terminates(r) => Unsaved(req'[r]) = 0]_vars

\* the relay's record after folding the events of seq into a new message
RECURSIVE FoldAll(_, _)
FoldAll(r, seq) ==
  IF seq = <<>> THEN NewReq
  ELSE Fold(FoldAll(r, SubSeq(seq, 1, Len(seq) - 1)), r, seq[Len(seq)])

\* persisted message m is what folding the first k events of seq builds
IsFoldOf(m, r, seq, k) ==
  LET a == FoldAll(r, SubSeq(seq, 1, k)).asst IN
  /\ a # NoMsg
  /\ m.content = a.content
  /\ m.thinking = a.thinking
  /\ m.summaries = a.summaries
  /\ m.toolCalls = a.toolCalls

\* the numbers k for which the message of r in store D is the fold of the
\* first k events of seq
Folds(D, r, seq) ==
  IF req[r].taskId \notin DOMAIN D THEN {}
  ELSE LET ms == D[req[r].taskId].messages IN
       {k \in 0..Len(seq) :
          \E i \in 1..Len(ms) :
            ms[i].id = AsstMsgId(r) /\ IsFoldOf(ms[i], r, seq, k)}

\* the message of r is in store D
Persisted(D, r) ==
  /\ req[r].taskId \in DOMAIN D
  /\ HasId(D[req[r].taskId].messages, AsstMsgId(r))

\* C22: monotonic checkpoint: while r streams, the persisted message of r
\* is the fold of the first k events for some k, and after every write of
\* the store it is the fold of at least as many events as before
C22_MonotonicCheckpoint ==
  [][\A r \in Reqs :
       (StreamingWithTask(r) /\ ~req'[r].streamClosed
          /\ Persisted(disk', r))
         => LET seq == req'[r].events IN
            /\ Folds(disk', r, seq) # {}
            /\ Persisted(disk, r) =>
                 \E k \in Folds(disk, r, seq) :
                   \E k2 \in Folds(disk', r, seq) : k <= k2]_vars

\* ---- properties: the message builder ----

\* the ids of the messages that store D holds as finalized
Finalized(D) ==
  UNION {{D[t].messages[i].id : i \in {j \in 1..Len(D[t].messages) :
                                          ~D[t].messages[j].isStreaming}} :
         t \in DOMAIN D}

\* the ids of the messages that store D holds as streaming
Streaming(D) ==
  UNION {{D[t].messages[i].id : i \in {j \in 1..Len(D[t].messages) :
                                          D[t].messages[j].isStreaming}} :
         t \in DOMAIN D}

\* C23: terminal idempotence: once the message a relay builds, or a
\* persisted message, has isStreaming = false, no step sets it back to true
\* for that message id, engine events after the close of the stream
\* included
C23_TerminalIdempotence ==
  [][/\ \A r \in Reqs :
          (req[r].asst # NoMsg /\ ~req[r].asst.isStreaming)
            => (req'[r].asst # NoMsg /\ ~req'[r].asst.isStreaming)
     /\ Finalized(disk) \cap Streaming(disk') = {}]_vars

\* an engine event was folded after a timer had closed the stream and
\* finalized the message, and the store holds the message as finalized
C23_Witness ==
  \E r \in Reqs :
    /\ req[r].endedBy = "throw"
    /\ req[r].asst # NoMsg
    /\ ~req[r].asst.isStreaming
    /\ Len(req[r].events) > 1
    /\ Last(req[r].sink) \in {ErrorEvent(HungText), ErrorEvent(TimeoutText)}
    /\ AsstMsgId(r) \in Finalized(disk)

\* the texts of the events of one type in seq, in order
TextsOf(seq, type) ==
  LET sel == SelectSeq(seq, LAMBDA u : u.type = type /\ u.text # "")
  IN [i \in 1..Len(sel) |-> sel[i].text]

RECURSIVE SumTokens(_)
SumTokens(seq) ==
  IF seq = <<>> THEN 0
  ELSE SumTokens(SubSeq(seq, 1, Len(seq) - 1))
         + (IF seq[Len(seq)].type = "token-delta"
            THEN seq[Len(seq)].tokens ELSE 0)

\* task t of store D holds, for relay r, the token count at submit plus all
\* token-delta amounts, and its message of r holds all the texts of seq
HoldsFold(D, r, seq, tokensAtSubmit) ==
  LET t == D[req[r].taskId] IN
  /\ t.tokenCount = tokensAtSubmit + SumTokens(seq)
  /\ \A i \in 1..Len(t.messages) :
        t.messages[i].id = AsstMsgId(r) =>
          /\ t.messages[i].content = TextsOf(seq, "text-delta")
          /\ t.messages[i].thinking = TextsOf(seq, "thinking-delta")
          /\ t.messages[i].summaries = TextsOf(seq, "summary")

\* in this step the relay of r pushes done after the last event of its engine
EndsWithDone(r) ==
  /\ Terminates(r)
  /\ Last(req'[r].sink) = DoneEvent

\* C24: builder fold: for every event sequence of the engine, after the
\* final checkpoint the persisted assistant message holds the concatenation
\* of all text-delta texts as content, of all thinking-delta texts as
\* thinking, all summary texts in order as summaries, and the task's
\* tokenCount is its value at submit plus all token-delta amounts
C24_BuilderFold ==
  [][\A r \in Reqs :
       EndsWithDone(r) =>
         HoldsFold(disk', r, req'[r].events,
                   InitTask(req[r].taskId).tokenCount)]_vars

\* C25: for every thinking-completed event processed while the message of a
\* relay with a task is streaming, a completion marker is appended to the
\* thinking of that message, which the persisted task shows
C25_ThinkingCompletedMarker ==
  [][\A r \in Reqs :
       (/\ StreamingWithTask(r)
        /\ Receives(r)
        /\ Last(req'[r].events).type = "thinking-completed"
        /\ req[r].asst # NoMsg
        /\ req[r].asst.isStreaming)
         => Len(req'[r].asst.thinking) = Len(req[r].asst.thinking) + 1]_vars

\* the engine of r has yielded an error event
SawErrorEvent(q) ==
  \E i \in 1..Len(q.events) : q.events[i].type = "error"

\* C26: processing an error event of the engine's stream marks the task
\* failed with the event's text, finalizes the current message and writes
\* a checkpoint at once, and the stream that yielded it does not report the
\* task completed later
C26_ErrorEventFailsTask ==
  [][\A r \in Reqs :
       /\ (/\ StreamingWithTask(r)
           /\ Receives(r)
           /\ Last(req'[r].events).type = "error")
            => /\ disk'[req[r].taskId].status = "failed"
               /\ disk'[req[r].taskId].error = Last(req'[r].events).text
               /\ req'[r].asst # NoMsg => ~req'[r].asst.isStreaming
               /\ Unsaved(req'[r]) = 0
       /\ (HasStoredTask(r) /\ SawErrorEvent(req[r])
             /\ disk[req[r].taskId].status # "completed"
             /\ req[r].taskId \in DOMAIN disk')
            => disk'[req[r].taskId].status # "completed"]_vars

\* ---- properties: the persisted task ----

\* pending, then running, then completed or failed
Rank(status) ==
  CASE status = "pending" -> 0
    [] status = "running" -> 1
    [] OTHER -> 2

\* a move of the status that goes forward, or retries a failed task
ForwardOrRetry(a, b) ==
  \/ a = b
  \/ Rank(a) < Rank(b)
  \/ a = "failed" /\ b = "running"

\* C27: in every sequence of submissions, follow-ups, timeouts and kills
\* the persisted status of a task only moves forward (pending, running,
\* then completed or failed), except for a retry that takes a failed task
\* back into execution
C27_StatusForward ==
  [][\A t \in DOMAIN disk \cap DOMAIN disk' :
       ForwardOrRetry(disk[t].status, disk'[t].status)]_vars

\* every finalized message of task t in store D is in store E, unchanged
\* and at the same position
KeepsFinalized(D, E, t) ==
  \A i \in 1..Len(D[t].messages) :
    ~D[t].messages[i].isStreaming =>
      /\ i <= Len(E[t].messages)
      /\ E[t].messages[i] = D[t].messages[i]

\* C28: the persisted messages of a task are append-only across all
\* writers of the store: from one write of the task to the next every
\* message already persisted and finalized stays, unchanged and in place;
\* only the message that is streaming may differ
C28_MessagesAppendOnly ==
  [][\A t \in DOMAIN disk \cap DOMAIN disk' :
       KeepsFinalized(disk, disk', t)]_vars

\* store D holds the messages the server built for request r
ServerBuilt(D, r) ==
  /\ req[r].taskId \in DOMAIN D
  /\ HasId(D[req[r].taskId].messages, UserMsgId(r))

\* C29: the server-side checkpoint writer is the single authoritative
\* writer of a task's conversation: once the server has checkpointed the
\* messages of a request, no later write replaces them, while the stream is
\* in flight and after it has ended, as long as the task is in the store
C29_ServerAuthoritative ==
  [][\A r \in Reqs :
       (ServerBuilt(disk, r) /\ req[r].taskId \in DOMAIN disk')
         => ServerBuilt(disk', r)]_vars

\* ---- properties: request validation ----

\* in this step request r is answered with a request-level failure before
\* it has been given a session id
RejectedEarly(r) ==
  /\ req[r].pc = "new"
  /\ req'[r].pc = "ended"
  /\ req'[r].response \in {"400", "500"}
  /\ req'[r].sessionId = NoId

\* C30: a submit request with a missing message, or made while the
\* credentials are not configured, is rejected before any session work: the
\* registry is unchanged (no eviction, no creation, no refresh of a
\* session), no session is cancelled, nothing is pushed to any sink, and
\* the engine and the store are not called
C30_RejectedBeforeSessionWork ==
  [][\A r \in Reqs :
       RejectedEarly(r) =>
         /\ agentSessions' = agentSessions
         /\ \A k \in Reqs \ {r} : req'[k] = req[k]
         /\ req'[r].submitOutcome = "none"
         /\ req'[r].task = None
         /\ req'[r].sink = <<>>
         /\ heap' = heap /\ dataStore' = dataStore /\ disk' = disk]_vars

\* a request was rejected early while the registry holds an expired
\* session, which the rejected request did not evict
C30_Witness ==
  \E r, k \in Reqs :
    /\ k < r
    /\ req[r].pc = "ended"
    /\ req[r].response \in {"400", "500"}
    /\ req[r].sessionId = NoId
    /\ req[k].sessionId \in DOMAIN agentSessions
    /\ agentSessions[req[k].sessionId].expired

\* ---- properties: eviction ----

\* request r is accepted by the POST handler in this step
Accepted(r) ==
  /\ Arrives(r)
  /\ req'[r].sessionId # NoId

\* C31: the eviction run at each accepted submit removes exactly the
\* entries that have expired and keeps all others, and a request that names
\* an id whose entry has expired is not served by the expired session: the
\* id is bound to a session created for this request
C31_TTLEviction ==
  [][\A r \in Reqs :
       Accepted(r) =>
         /\ req'[r].evicted = {id \in DOMAIN agentSessions :
                                 agentSessions[id].expired}
         /\ \A id \in DOMAIN agentSessions :
              IF agentSessions[id].expired
              THEN /\ req'[r].agent # agentSessions[id].agent
                   /\ id \in DOMAIN agentSessions' =>
                        /\ req'[r].sessionId = id
                        /\ ~req'[r].canReuse
                        /\ agentSessions'[id].agent = r
              ELSE id # req'[r].sessionId =>
                     /\ id \in DOMAIN agentSessions'
                     /\ agentSessions'[id] = agentSessions[id]]_vars

\* a request named an id whose entry its own clean-up had just removed, and
\* is streaming from a session created for it
C31_Witness ==
  \E r \in Reqs :
    /\ req[r].sessionId \in req[r].evicted
    /\ req[r].response = "stream"
    /\ req[r].agent = r

\* ---- properties: the client's stuck warning ----

\* the time of the last update of the last message, or of its creation
LastActivity(v) ==
  IF v.lastUpdateTime # None THEN v.lastUpdateTime ELSE v.created

\* C32: whenever the task is running, its last message is streaming and
\* 10 or more seconds have passed with no update to that message, counted
\* from its creation when no update has arrived yet, the stuck signal is
\* true after the check of each second that passes; it is false whenever
\* the task is not running or the last message is not streaming
C32_StuckWarning ==
  [][/\ (/\ view'.now = view.now + 1
          /\ view'.status = "running"
          /\ view'.isStreaming
          /\ view'.now - LastActivity(view') >= STUCK_SECONDS)
         => view'.isStuck
     /\ (view'.status # "running" \/ ~view'.isStreaming) => ~view'.isStuck]_vars

\* ---- properties: the client's retry ----

RelayCallback(k) ==
  \/ heartbeatInterval(k)
  \/ streamTimeout(k)
  \/ StreamDone(k)
  \/ \E error \in Faults : StreamFault(k, error)
  \/ \E u \in Updates : RelayUpdate(k, u)
  \/ StreamCancel(k)

\* the session under id is held by the submission of request r
HeldBy(id, r) ==
  /\ id \in DOMAIN agentSessions
  /\ agentSessions[id].currentSubmission = r

\* C34: the timers and the clean-up code of a relay only affect the
\* submission the relay was started for: once a newer submission holds the
\* session under the same id, no callback of the older relay calls cancel()
\* on the newer token or clears the session's flag, sink or token
C34_RelayIsolation ==
  [][\A k, r \in Reqs :
       (/\ k # r
        /\ req[k].sessionId = req[r].sessionId
        /\ HeldBy(req[r].sessionId, r)
        /\ RelayCallback(k))
       => /\ req'[r].cancelCalls = req[r].cancelCalls
          /\ agentSessions' = agentSessions]_vars

\* the sink of relay k was closed by a newer request's force-stop or by a
\* kill, and relay k works on a stored task
Superseded(k) ==
  /\ req[k].task # None
  /\ req[k].controllerClosed
  /\ Len(req[k].sink) > 0
  /\ Last(req[k].sink) \in {ErrorEvent(InterruptedText),
                             ErrorEvent(KilledText),
                             ErrorEvent(KilledAllText)}

\* C35: after a submission for a task has been superseded by the forced
\* stop of a newer request, or killed, its relay makes no further change to
\* the persisted task: it does not set the task's status or error and does
\* not write the task to the store
C35_SupersededRelayIsSilent ==
  [][\A k \in Reqs :
       (Superseded(k) /\ RelayCallback(k))
       => /\ heap'[req[k].task].status = heap[req[k].task].status
          /\ heap'[req[k].task].error = heap[req[k].task].error
          /\ disk' = disk]_vars

\* ---- properties: a supplied id bound to another directory ----

\* request r is accepted in this step and names id, which the registry
\* holds, unexpired, for another working directory
NamesOtherDirectory(r, id) ==
  /\ id \in DOMAIN agentSessions
  /\ ~agentSessions[id].expired
  /\ \E wd \in Dirs \cup {NoDir}, t \in TaskIds \cup {NoTask},
        outcome \in Outcomes :
          /\ agentSessions[id].workingDirectory # Directory(wd)
          /\ Post(r, id, wd, t, outcome)

\* C36: when a submit request names an id that is in the registry with a
\* different working directory, the entry under that id is replaced by a
\* session created for the request, which keeps the supplied id (the entry
\* stays replaced unless the engine answers busy, which deletes it), and the
\* replaced session's submission is not cancelled and its sink receives no
\* item and is not closed
C36_ReplacedSessionUntouched ==
  [][\A r \in Reqs, id \in SuppliedIds :
       NamesOtherDirectory(r, id) =>
         /\ req'[r].sessionId = id
         /\ ~req'[r].canReuse
         /\ req'[r].agent = r
         /\ req'[r].submitOutcome # "busy" =>
              /\ id \in DOMAIN agentSessions'
              /\ agentSessions'[id].agent = r
              /\ agentSessions'[id].workingDirectory = req'[r].directory
         /\ \A k \in Reqs \ {r} : req'[k] = req[k]]_vars

\* a request streams under an id whose entry it replaced, while the relay
\* of the replaced session is still iterating with its sink open and its
\* submission not cancelled
C36_Witness ==
  \E r, k \in Reqs :
    /\ k < r
    /\ req[r].sessionId = req[k].sessionId
    /\ req[r].directory # req[k].directory
    /\ req[r].evicted = {}
    /\ req[r].response = "stream"
    /\ ~req[r].canReuse
    /\ Relaying(k)
    /\ req[k].cancelCalls = 0
    /\ Last(req[k].sink).type # "error"

\* ---- properties: a failed submit ----

\* the engine's submit of request r throws an error other than busy in
\* this step
SubmitFails(r) ==
  /\ req[r].submitOutcome = "none"
  /\ req'[r].submitOutcome = "error"

\* the latest request for session id ended with a failed submit
FailedLast(id) ==
  \E r \in Reqs :
    /\ req[r].sessionId = id
    /\ req[r].submitOutcome = "error"
    /\ \A k \in Reqs : k > r => req[k].sessionId # id

\* C37: when the engine's submit fails with an error other than the busy
\* condition, the request returns a request-level error with no stream, the
\* session stays in the registry and is left Idle with no sink and no
\* cancel token, and the next request for it runs no cancellation
\* escalation
C37_FailedSubmitLeavesIdle ==
  [][\A r \in Reqs :
       /\ SubmitFails(r) =>
            /\ req'[r].response = "500"
            /\ req'[r].pc = "ended"
            /\ req'[r].sink = <<>>
            /\ req'[r].sessionId \in DOMAIN agentSessions'
            /\ LET s == agentSessions'[req'[r].sessionId] IN
                 /\ ~s.isSubmitting
                 /\ s.currentController = None
                 /\ s.currentSubmission = None
       /\ (Accepted(r) /\ FailedLast(req'[r].sessionId)) =>
            /\ ~req'[r].forced
            /\ \A k \in Reqs : req'[k].cancelCalls = req[k].cancelCalls]_vars

\* a request reused, without a forced stop, the session that the failed
\* submit of the request before it had left in the registry
C37_Witness ==
  \E r, k \in Reqs :
    /\ k < r
    /\ req[k].submitOutcome = "error"
    /\ req[k].response = "500"
    /\ req[r].sessionId = req[k].sessionId
    /\ req[r].canReuse
    /\ req[r].agent = req[k].agent
    /\ ~req[r].forced
    /\ req[r].response # "none"

\* C38: eviction never removes a session that has a submission in flight:
\* every entry the clean-up of an accepted request removes is Idle with no
\* attached sink
C38_EvictsOnlyIdle ==
  [][\A r \in Reqs :
       Accepted(r) =>
         \A id \in req'[r].evicted :
           /\ ~agentSessions[id].isSubmitting
           /\ agentSessions[id].currentController = None]_vars

\* ---- properties: the consumer disconnects ----

\* the consumer of stream r disconnects in this step: the sink closes
\* without a last item
Disconnects(r) ==
  /\ req[r].response = "stream"
  /\ ~req[r].controllerClosed
  /\ req'[r].controllerClosed
  /\ req'[r].sink = req[r].sink

\* C39: when the consumer cancels a stream, the session under the stream's
\* id, if the registry holds one, becomes Idle with its sink and cancel
\* token cleared and stays in the registry with its other fields; no entry
\* is added or removed, the engine's cancel() is not called and the task is
\* not changed or written
C39_DisconnectClearsSession ==
  [][\A r \in Reqs :
       Disconnects(r) =>
         /\ DOMAIN agentSessions' = DOMAIN agentSessions
         /\ \A id \in DOMAIN agentSessions :
              IF id = req[r].sessionId
              THEN agentSessions'[id] =
                     [agentSessions[id] EXCEPT !.isSubmitting = FALSE,
                                               !.currentController = None,
                                               !.currentSubmission = None]
              ELSE agentSessions'[id] = agentSessions[id]
         /\ \A k \in Reqs : req'[k].cancelCalls = req[k].cancelCalls
         /\ heap' = heap
         /\ dataStore' = dataStore
         /\ disk' = disk]_vars

\* the consumer has disconnected from a stream whose relay is still
\* iterating for a stored task: the session is in the registry, Idle, and
\* the engine was not cancelled
C39_Witness ==
  \E r \in Reqs :
    /\ req[r].pc = "iterating"
    /\ req[r].task # None
    /\ req[r].controllerClosed
    /\ ~req[r].streamClosed
    /\ Last(req[r].sink).type \notin {"error", "done"}
    /\ req[r].updateCount > 0
    /\ req[r].cancelCalls = 0
    /\ req[r].sessionId \in DOMAIN agentSessions
    /\ ~agentSessions[req[r].sessionId].isSubmitting
    /\ agentSessions[req[r].sessionId].currentController = None
    /\ agentSessions[req[r].sessionId].currentSubmission = None

\* ---- properties: the store's array of tasks ----

\* relay r runs a step of its loop, its completion or its error path
RelayWrites(r) ==
  \/ \E u \in Updates : RelayUpdate(r, u)
  \/ StreamDone(r)
  \/ \E error \in Faults : StreamFault(r, error)
  \/ streamTimeout(r)
  \/ heartbeatInterval(r)

\* the ids of the tasks in array tasks, over heap h
IdsIn(tasks, h) == {h[tasks[i]].id : i \in 1..Len(tasks)}

OnePerId(tasks, h) ==
  \A i, j \in 1..Len(tasks) : h[tasks[i]].id = h[tasks[j]].id => i = j

\* C40: a task deleted from the store while its stream is in flight is
\* never re-created by a later checkpoint of the relay: a step of the relay
\* adds no entry to the store, and after any sequence of save, update,
\* delete and clear operations the store holds at most one task per id
C40_NoResurrection ==
  [][/\ \A r \in Reqs :
          RelayWrites(r) =>
            /\ Len(dataStore') = Len(dataStore)
            /\ IdsIn(dataStore', heap') = IdsIn(dataStore, heap)
     /\ OnePerId(dataStore', heap')]_vars

\* the relay of a request whose task has been deleted from the store has
\* run a checkpoint that wrote nothing, and the task is still absent
C40_Witness ==
  \E r \in Reqs :
    /\ req[r].task # None
    /\ req[r].asst # NoMsg
    /\ Len(req[r].events) > 0
    /\ Last(req[r].events).type = "summary"
    /\ req[r].savedAt < req[r].updateCount
    /\ req[r].taskId \notin IdsIn(dataStore, heap)
    /\ req[r].taskId \notin DOMAIN disk

====
